---- MODULE Spec2Model ----
(***************************************************************************)
(* Model of the NOTAM text parser of shockwave_planner_v2                  *)
(* (gui/views/map_view.py, class NotamParser; gui/map_view.py holds an     *)
(* identical copy).                                                        *)
(*                                                                         *)
(* Text is a sequence of one-character strings.  A Python float that holds *)
(* an angle is a record [neg, mag]: the IEEE sign bit and the magnitude in *)
(* whole arc-seconds (mag/3600 degrees), so that -0.0 and 0.0 differ in    *)
(* the sign and agree in Val.                                              *)
(***************************************************************************)
EXTENDS Integers, Sequences, FiniteSets, TLC

VARIABLES
    pc,            \* "input": arguments chosen, "done": the call has returned
    given,         \* how the argument of parse_coordinate was produced
    coord_str,     \* argument of parse_coordinate
    coord_ret,     \* its return value
    pieces,        \* the pieces notam_text was assembled from
    notam_text,    \* argument of parse_notam_area
    area_ret,      \* its return value
    coordinates,   \* argument of calculate_polygon_center
    center_ret,    \* its return value
    exc,           \* the exception that left the call, NoExc when it returned
    gc_args,       \* arguments of calculate_great_circle_info
    gc_ret,        \* the dict it returns
    widget,        \* MapView attributes the user interface changes
    log,           \* per function, the (argument, result) pairs of the calls made
    frames,        \* per thread, the frame of the call the thread is executing
    canvas,        \* what draw_notam_polygon was given and what it put on the map
    timeline,      \* ReentryTimelineView: month shown, a zone's re-entries and cells
    fetching,      \* SpaceDevsClient._fetch: its local names, and the pages the API holds
    db,            \* LaunchSite, Rocket and Launch rows
    sync,          \* the last sync call: its input, the rows before it, what it returned
    worker,        \* SyncWorker: its sync_type, the dicts it emitted on finished
    mapview        \* dict-based MapView: selected_launch, the NOTAM text box, the last call

vars == <<pc, given, coord_str, coord_ret, pieces, notam_text, area_ret,
          coordinates, center_ret, exc, gc_args, gc_ret, widget, log, frames, canvas,
          timeline,
          fetching,
          db,
          sync,
          worker,
          mapview>>

\* no exception: the call returned normally
NoExc == "no exception"

\* A return value: Python's None (what every failing call returns) or a value.
None == [none |-> TRUE, val |-> <<>>]

Some(v) == [none |-> FALSE, val |-> v]

\* truth value of a return value in "if coord:" (None and empty sequences are false)
Truthy(r) == ~r.none /\ r.val # <<>>

----------------------------------------------------------------------------
(* Characters.  The texts range over ASCII letters, digits, punctuation and *)
(* whitespace; the non-ASCII digits and spaces that \d and \s also accept  *)
(* are not part of the alphabet.                                           *)

Digits == <<"0", "1", "2", "3", "4", "5", "6", "7", "8", "9">>

DigitSet == {Digits[i] : i \in 1..10}

\* int() of one decimal digit
DigitVal(c) == (CHOOSE i \in 1..10 : Digits[i] = c) - 1

\* the characters \s matches and str.strip() removes
Whitespace == {" ", "\n", "\t"}

UpperLetters == <<"B", "O", "U", "N", "D", "E", "Y", "S", "W", "T", "A", "C", "K", "R", "X">>

LowerLetters == <<"b", "o", "u", "n", "d", "e", "y", "s", "w", "t", "a", "c", "k", "r", "x">>

\* case folding of re.IGNORECASE
Upper(c) ==
    IF \E i \in 1..Len(LowerLetters) : LowerLetters[i] = c
    THEN UpperLetters[CHOOSE i \in 1..Len(LowerLetters) : LowerLetters[i] = c]
    ELSE c

Lower(c) ==
    IF \E i \in 1..Len(UpperLetters) : UpperLetters[i] = c
    THEN LowerLetters[CHOOSE i \in 1..Len(UpperLetters) : UpperLetters[i] = c]
    ELSE c

----------------------------------------------------------------------------
(* Floats *)

Flt(neg, mag) == [neg |-> neg, mag |-> mag]

\* the numeric value, in arc-seconds
Val(f) == IF f.neg THEN 0 - f.mag ELSE f.mag

\* unary minus
Negate(f) == Flt(~f.neg, f.mag)

----------------------------------------------------------------------------
(* NotamParser.parse_coordinate *)

\* r'([NS])(\d{2})(\d{2})(\d{2})([EW])(\d{3})(\d{2})(\d{2})', one character
\* class per position
pattern ==
    <<{"N", "S"}>> \o [i \in 1..6 |-> DigitSet] \o
    <<{"E", "W"}>> \o [i \in 1..7 |-> DigitSet]

\* the pattern matches s at position i (later characters are not looked at)
RECURSIVE match_from(_, _, _, _)
match_from(pat, k, s, i) ==
    IF k > Len(pat) THEN TRUE
    ELSE IF i > Len(s) THEN FALSE
    ELSE IF s[i] \notin pat[k] THEN FALSE
    ELSE match_from(pat, k + 1, s, i + 1)

re_match(pat, s) == match_from(pat, 1, s, 1)

RECURSIVE lstrip(_)
lstrip(s) ==
    IF s # <<>> /\ Head(s) \in Whitespace THEN lstrip(Tail(s)) ELSE s

RECURSIVE rstrip(_)
rstrip(s) ==
    IF s # <<>> /\ s[Len(s)] \in Whitespace
    THEN rstrip(SubSeq(s, 1, Len(s) - 1)) ELSE s

strip(s) == rstrip(lstrip(s))

\* int() of a string of decimal digits
RECURSIVE int(_)
int(s) ==
    IF s = <<>> THEN 0
    ELSE 10 * int(SubSeq(s, 1, Len(s) - 1)) + DigitVal(s[Len(s)])

dms_SecondsAsMinutes(deg, min, sec) == 3600 * deg + 60 * min + 60 * sec

\* deg + min/60 + sec/3600, in arc-seconds
dms(deg, min, sec) == 3600 * deg + 60 * min + sec

apply_direction_Swapped(dir, negative, mag) ==
    IF dir # negative THEN Negate(Flt(FALSE, mag)) ELSE Flt(FALSE, mag)

\* "if lat_dir == 'S': lat = -lat" and "if lon_dir == 'W': lon = -lon"
apply_direction(dir, negative, mag) ==
    IF dir = negative THEN Negate(Flt(FALSE, mag)) ELSE Flt(FALSE, mag)

\* match.groups() converted and signed: the pair (lat, lon)
decode_groups(s) ==
    <<apply_direction(s[1], "S",
          dms(int(SubSeq(s, 2, 3)), int(SubSeq(s, 4, 5)), int(SubSeq(s, 6, 7)))),
      apply_direction(s[8], "W",
          dms(int(SubSeq(s, 9, 11)), int(SubSeq(s, 12, 13)), int(SubSeq(s, 14, 15))))>>

parse_coordinate_NoStrip(coord_str_) ==
    LET s == coord_str_ IN
    IF ~re_match(pattern, s) THEN None
    ELSE Some(decode_groups(s))

parse_coordinate_RangeChecked(coord_str_) ==
    LET s == strip(coord_str_) IN
    IF ~re_match(pattern, s) THEN None
    ELSE IF int(SubSeq(s, 4, 5)) > 59 \/ int(SubSeq(s, 6, 7)) > 59
            \/ int(SubSeq(s, 12, 13)) > 59 \/ int(SubSeq(s, 14, 15)) > 59
    THEN None
    ELSE Some(decode_groups(s))

parse_coordinate(coord_str_) ==
    LET s == strip(coord_str_) IN
    IF ~re_match(pattern, s) THEN None
    ELSE Some(decode_groups(s))

----------------------------------------------------------------------------
(* Inputs of parse_coordinate *)

\* n as k decimal digits, zero padded
RECURSIVE Pad(_, _)
Pad(n, k) ==
    IF k = 0 THEN <<>> ELSE Pad(n \div 10, k - 1) \o <<Digits[(n % 10) + 1]>>

\* the token [NS]DDMMSS[EW]DDDMMSS with the given field values
Token(ld, d1, m1, s1, od, d2, m2, s2) ==
    <<ld>> \o Pad(d1, 2) \o Pad(m1, 2) \o Pad(s1, 2) \o
    <<od>> \o Pad(d2, 3) \o Pad(m2, 2) \o Pad(s2, 2)

LatDegSamples == {0, 30, 89, 90, 99}

LonDegSamples == {0, 110, 180, 999}

LatMinSamples == {0, 59, 60}

LatSecSamples == {0, 59, 99}

LonMinSamples == {0, 60}

LonSecSamples == {0, 59}

\* ways a caller's string differs from the bare token
Mutations ==
    {"none", "lead_space", "trail_space", "both_ws", "trail_extra", "trail_digit",
     "lead_extra", "lower_lat", "lower_lon", "short", "inner_space", "bad_digit",
     "empty"}

Mutate(t, mut) ==
    CASE mut = "none"        -> t
      [] mut = "lead_space"  -> <<" ">> \o t
      [] mut = "trail_space" -> t \o <<" ">>
      [] mut = "both_ws"     -> <<"\n", " ">> \o t \o <<"\t">>
      [] mut = "trail_extra" -> t \o <<"X">>
      [] mut = "trail_digit" -> t \o <<"0">>
      [] mut = "lead_extra"  -> <<"X">> \o t
      [] mut = "lower_lat"   -> <<Lower(t[1])>> \o Tail(t)
      [] mut = "lower_lon"   -> SubSeq(t, 1, 7) \o <<Lower(t[8])>> \o SubSeq(t, 9, 15)
      [] mut = "short"       -> SubSeq(t, 1, 14)
      [] mut = "inner_space" -> SubSeq(t, 1, 7) \o <<" ">> \o SubSeq(t, 8, 15)
      [] mut = "bad_digit"   -> SubSeq(t, 1, 4) \o <<"X">> \o SubSeq(t, 6, 15)
      [] mut = "empty"       -> <<>>

NoGiven ==
    [kind |-> "none", ld |-> "N", d1 |-> 0, m1 |-> 0, s1 |-> 0,
     od |-> "E", d2 |-> 0, m2 |-> 0, s2 |-> 0, mut |-> "none", lat |-> 0, lon |-> 0]

\* whole arc-second latitudes in [-90, 90] and longitudes in [-180, 180]
LatPoints ==
    LET m == {0, 1, 59, 60, 61, 3599, 3600, 3661, 109140, 323999, 324000}
    IN m \cup {0 - x : x \in m}

LonPoints ==
    LET m == {0, 1, 60, 3600, 35999, 36000, 398220, 647999, 648000}
    IN m \cup {0 - x : x \in m}

Abs(x) == IF x < 0 THEN 0 - x ELSE x

\* letter from the sign, zero-padded degrees, minutes, seconds of |lat|, |lon|
Encode(lat, lon) ==
    Token(IF lat < 0 THEN "S" ELSE "N",
          Abs(lat) \div 3600, (Abs(lat) % 3600) \div 60, Abs(lat) % 60,
          IF lon < 0 THEN "W" ELSE "E",
          Abs(lon) \div 3600, (Abs(lon) % 3600) \div 60, Abs(lon) % 60)

IdleArea == pieces = <<>> /\ notam_text = <<>> /\ area_ret = None

IdleCenter == coordinates = <<>> /\ center_ret = None

IdleCoord == given = NoGiven /\ coord_str = <<>> /\ coord_ret = None

NoArgs == [lat1 |-> 0, lon1 |-> 0, lat2 |-> 0, lon2 |-> 0]

NoResult == [distance_km |-> 0, distance_nm |-> 0, azimuth |-> 0, inclination |-> 0]

IdleGreatCircle == gc_args = NoArgs /\ gc_ret = NoResult

\* MapView.__init__: nothing selected, both check boxes ticked
InitWidget == [selected_launch |-> 0, show_path |-> TRUE]

NoLog == [coord |-> {}, area |-> {}, center |-> {}, gc |-> {}]

\* no call history is kept and no thread is running
IdleCalls == widget = InitWidget /\ log = NoLog /\ frames = <<>>

\* nothing has been drawn
NoCanvas ==
    [called |-> FALSE, arg |-> <<>>, polygon |-> <<>>, center |-> None,
     path |-> None, traj |-> None]

\* the re-entry timeline before any re-entry is saved and any row is drawn
NoTimeline ==
    [current_year |-> 2025, current_month |-> 3, turnaround_days |-> 7,
     reentries |-> {}, cells |-> <<>>]

\* SpaceDevsClient._fetch before it is called
NoFetch ==
    [pc |-> "idle", max_results |-> 0, available |-> 0, offset |-> 0, more |-> FALSE,
     limit |-> 0, num_results |-> 0, requested |-> 0, results |-> 0]

\* the tables the sync writes, empty
NoRows == [sites |-> {}, rockets |-> {}, launches |-> {}]

\* the statistics dict of a sync that processed nothing
NoStats == [added |-> 0, updated |-> 0, skipped |-> 0, errors |-> 0, total_processed |-> 0]

\* no sync call has been made
NoSync ==
    [called |-> "none", launch |-> "", fault |-> "none", existed |-> FALSE,
     before |-> NoRows, action |-> "none", stats |-> NoStats]

\* no SyncWorker has been created
NoWorker == [state |-> "none", sync_type |-> "", emitted |-> <<>>, handled |-> "none"]

\* selected_launch = None
NoLaunch == [none |-> TRUE, launch_id |-> 0, custom_notam |-> None]

\* the dict-based MapView after __init__
NoMapView ==
    [selected_launch |-> NoLaunch, custom_notam_text |-> <<>>, status_label |-> "",
     called |-> "none", before |-> NoLaunch, text |-> <<>>]

\* the state of the rest of the application
AppState == <<canvas, timeline, fetching, db, sync, worker, mapview>>

\* the rest of the application is as it is after start-up
IdleApp == canvas = NoCanvas /\ timeline = NoTimeline /\ fetching = NoFetch /\ db = NoRows /\ sync = NoSync /\ worker = NoWorker /\ mapview = NoMapView

\* a caller hands over a string built around a token
InitCoordToken ==
    \E ld \in {"N", "S"}, d1 \in LatDegSamples, m1 \in LatMinSamples, s1 \in LatSecSamples,
       od \in {"E", "W"}, d2 \in LonDegSamples, m2 \in LonMinSamples, s2 \in LonSecSamples,
       mut \in Mutations :
        /\ given = [NoGiven EXCEPT !.kind = "token", !.ld = ld, !.d1 = d1, !.m1 = m1,
                       !.s1 = s1, !.od = od, !.d2 = d2, !.m2 = m2, !.s2 = s2, !.mut = mut]
        /\ coord_str = Mutate(Token(ld, d1, m1, s1, od, d2, m2, s2), mut)

\* a caller encodes a point
InitCoordPoint ==
    \E lat \in LatPoints, lon \in LonPoints :
        /\ given = [NoGiven EXCEPT !.kind = "point", !.lat = lat, !.lon = lon]
        /\ coord_str = Encode(lat, lon)

InitCoord ==
    /\ pc = "input"
    /\ coord_ret = None
    /\ InitCoordToken \/ InitCoordPoint
    /\ IdleArea
    /\ IdleCenter
    /\ exc = NoExc
    /\ IdleGreatCircle
    /\ IdleCalls
    /\ IdleApp

CallParseCoordinate ==
    /\ pc = "input"
    /\ pc' = "done"
    /\ coord_ret' = parse_coordinate(coord_str)
    /\ exc' = NoExc
    /\ UNCHANGED <<given, coord_str, pieces, notam_text, area_ret, coordinates, center_ret>>
    /\ UNCHANGED <<gc_args, gc_ret, widget, log, frames, AppState>>

NextCoord == CallParseCoordinate

SpecCoord == InitCoord /\ [][NextCoord]_vars

----------------------------------------------------------------------------
(* NotamParser.parse_notam_area *)

\* the literal part of r'BOUNDED BY:\s*([^.]+)'
marker == <<"B", "O", "U", "N", "D", "E", "D", " ", "B", "Y", ":">>

\* the literal matches s at position i under re.IGNORECASE
literal_at(s, i) ==
    /\ i + Len(marker) - 1 <= Len(s)
    /\ \A k \in 1..Len(marker) : Upper(s[i + k - 1]) = marker[k]

\* greedy \s*: the first position from j on that holds no whitespace
RECURSIVE skip_ws(_, _)
skip_ws(s, j) ==
    IF j <= Len(s) /\ s[j] \in Whitespace THEN skip_ws(s, j + 1) ELSE j

run_end_ThroughPeriods(s, j) == Len(s) + 1

\* greedy [^.]+ : the first position from j on that holds a period, or Len+1
RECURSIVE run_end(_, _)
run_end(s, j) ==
    IF j <= Len(s) /\ s[j] # "." THEN run_end(s, j + 1) ELSE j

\* The whole pattern tried at position i: <<first, last>> of group 1, or <<>>.
\* When nothing but a period or the end follows the whitespace, \s* gives its
\* last character back to the group.
bounded_match_at(s, i) ==
    IF ~literal_at(s, i) THEN <<>>
    ELSE LET j == i + Len(marker)
             g == skip_ws(s, j)
         IN  IF g <= Len(s) /\ s[g] # "." THEN <<g, run_end(s, g) - 1>>
             ELSE IF g > j THEN <<g - 1, g - 1>>
             ELSE <<>>

\* the rightmost position at which the pattern matches
RECURSIVE search_from_Rightmost(_, _)
search_from_Rightmost(s, i) ==
    IF i > Len(s) THEN <<>>
    ELSE LET later == search_from_Rightmost(s, i + 1)
         IN  IF later # <<>> THEN later ELSE bounded_match_at(s, i)

\* re.search: the leftmost position at which the pattern matches
RECURSIVE search_from(_, _)
search_from(s, i) ==
    IF i > Len(s) THEN <<>>
    ELSE IF bounded_match_at(s, i) # <<>> THEN bounded_match_at(s, i)
    ELSE search_from(s, i + 1)

re_search(s) == search_from(s, 1)

\* r'[NS]\d{6}[EW]\d{7}'
coord_pattern ==
    <<{"N", "S"}>> \o [i \in 1..6 |-> DigitSet] \o
    <<{"E", "W"}>> \o [i \in 1..7 |-> DigitSet]

\* re.findall: the non-overlapping matches, left to right
RECURSIVE findall_from(_, _, _)
findall_from(pat, s, i) ==
    IF i > Len(s) THEN <<>>
    ELSE IF match_from(pat, 1, s, i)
         THEN <<SubSeq(s, i, i + Len(pat) - 1)>> \o findall_from(pat, s, i + Len(pat))
         ELSE findall_from(pat, s, i + 1)

findall(pat, s) == findall_from(pat, s, 1)

RECURSIVE decode_all_DropOrigin(_)
decode_all_DropOrigin(coord_strings) ==
    IF coord_strings = <<>> THEN <<>>
    ELSE LET coord == parse_coordinate(Head(coord_strings))
         IN  (IF Truthy(coord) /\ (coord.val[1].mag # 0 \/ coord.val[2].mag # 0)
              THEN <<coord.val>> ELSE <<>>)
             \o decode_all_DropOrigin(Tail(coord_strings))

RECURSIVE decode_all_Reversed(_)
decode_all_Reversed(coord_strings) ==
    IF coord_strings = <<>> THEN <<>>
    ELSE LET coord == parse_coordinate(Head(coord_strings))
         IN  decode_all_Reversed(Tail(coord_strings))
             \o (IF Truthy(coord) THEN <<coord.val>> ELSE <<>>)

\* "for coord_str in coord_strings: ... if coord: coordinates.append(coord)"
RECURSIVE decode_all(_)
decode_all(coord_strings) ==
    IF coord_strings = <<>> THEN <<>>
    ELSE LET coord == parse_coordinate(Head(coord_strings))
         IN  (IF Truthy(coord) THEN <<coord.val>> ELSE <<>>)
             \o decode_all(Tail(coord_strings))

parse_notam_area_EmptyList(notam_text_) ==
    LET bounded_match == re_search(notam_text_) IN
    IF bounded_match = <<>> THEN None
    ELSE Some(decode_all(findall(coord_pattern,
                  SubSeq(notam_text_, bounded_match[1], bounded_match[2]))))

parse_notam_area(notam_text_) ==
    LET bounded_match == re_search(notam_text_) IN
    IF bounded_match = <<>> THEN None
    ELSE LET bounded_text == SubSeq(notam_text_, bounded_match[1], bounded_match[2])
             coord_strings == findall(coord_pattern, bounded_text)
         IN  IF coord_strings = <<>> THEN None
             ELSE LET coordinates_ == decode_all(coord_strings)
                  IN  IF coordinates_ # <<>> THEN Some(coordinates_) ELSE None

----------------------------------------------------------------------------
(* Inputs of parse_notam_area: a text is a concatenation of pieces *)

\* the field values of the tokens a text may hold; T1..T4 are the docstring's
TokenFields ==
    [T1 |-> <<"N", 30, 19, 0, "E", 110, 37, 0>>,
     T2 |-> <<"N", 30, 17, 0, "E", 111, 0, 0>>,
     T3 |-> <<"N", 29, 38, 0, "E", 110, 57, 0>>,
     T4 |-> <<"N", 29, 40, 0, "E", 110, 34, 0>>,
     T0 |-> <<"N", 0, 0, 0, "E", 0, 0, 0>>,
     TS |-> <<"S", 33, 45, 30, "W", 70, 15, 60>>]

TokenNames == DOMAIN TokenFields

TokenText(n) ==
    LET f == TokenFields[n] IN Token(f[1], f[2], f[3], f[4], f[5], f[6], f[7], f[8])

RECURSIVE LowerAll(_)
LowerAll(s) == IF s = <<>> THEN <<>> ELSE <<Lower(Head(s))>> \o LowerAll(Tail(s))

MarkerNames == {"MARKER", "Marker"}

Delimiters == {"-", ",", "TO", "NL"}

Render(p) ==
    CASE p \in TokenNames -> TokenText(p)
      [] p = "MARKER" -> marker
      [] p = "Marker" -> <<"B">> \o LowerAll(SubSeq(marker, 2, 8)) \o <<"B", "y", ":">>
      [] p = "." -> <<".">>
      [] p = "..." -> <<".", ".", ".">>
      [] p = "SP" -> <<" ">>
      [] p = "-" -> <<"-">>
      [] p = "," -> <<",", " ">>
      [] p = "TO" -> <<" ", "T", "O", " ">>
      [] p = "NL" -> <<"\n">>
      [] p = "lowtok" -> LowerAll(TokenText("T1"))
      [] p = "BACK" -> <<",", " ", "B", "A", "C", "K", " ", "T", "O", " ",
                         "S", "T", "A", "R", "T">>

RECURSIVE RenderAll(_)
RenderAll(ps) == IF ps = <<>> THEN <<>> ELSE Render(Head(ps)) \o RenderAll(Tail(ps))

\* the pieces a caller's text is assembled from
AppendPieces == MarkerNames \cup Delimiters \cup {".", "lowtok", "T0", "TS"}

\* what a text may begin with before the caller's pieces: nothing, or a token
Headings == {<<>>, <<"T1">>}

HeadLen(ps) == IF ps # <<>> /\ ps[1] = "T1" THEN 1 ELSE 0

\* "...BOUNDED BY: N301900E1103700-N301700E1110000-N293800E1105700-
\*  N294000E1103400, BACK TO START."
DocExample ==
    <<"...", "MARKER", "SP", "T1", "-", "T2", "-", "T3", "-", "T4", "BACK", ".">>

MaxPieces == 4

InitArea ==
    /\ pc = "input"
    /\ pieces \in Headings \cup {DocExample}
    /\ notam_text = RenderAll(pieces)
    /\ area_ret = None
    /\ IdleCoord
    /\ IdleCenter
    /\ exc = NoExc
    /\ IdleGreatCircle
    /\ IdleCalls
    /\ IdleApp

\* the caller's text grows by one piece
AppendPiece ==
    /\ pc = "input"
    /\ Len(pieces) - HeadLen(pieces) < MaxPieces
    /\ \E p \in AppendPieces :
        /\ pieces' = Append(pieces, p)
        /\ notam_text' = notam_text \o Render(p)
    /\ UNCHANGED <<pc, given, coord_str, coord_ret, area_ret, coordinates, center_ret>>
    /\ UNCHANGED <<exc, gc_args, gc_ret, widget, log, frames, AppState>>

CallParseNotamArea ==
    /\ pc = "input"
    /\ pc' = "done"
    /\ area_ret' = parse_notam_area(notam_text)
    /\ exc' = NoExc
    /\ UNCHANGED <<given, coord_str, coord_ret, pieces, notam_text, coordinates, center_ret>>
    /\ UNCHANGED <<gc_args, gc_ret, widget, log, frames, AppState>>

NextArea == AppendPiece \/ CallParseNotamArea

SpecArea == InitArea /\ [][NextArea]_vars

----------------------------------------------------------------------------
(* NotamParser.calculate_polygon_center *)

\* a float that is a quotient of arc-seconds: num/den
Rat(num, den) == [num |-> num, den |-> den]

RECURSIVE sum(_)
sum(xs) == IF xs = <<>> THEN 0 ELSE Val(Head(xs)) + sum(Tail(xs))

mean_EndPoints(xs) == Rat(Val(xs[1]) + Val(xs[Len(xs)]), 2)

\* np.mean of a non-empty list
mean(xs) == Rat(sum(xs), Len(xs))

\* without the guard np.mean([]) gives nan
calculate_polygon_center_NoGuard(coordinates_) ==
    LET lats == [i \in 1..Len(coordinates_) |-> coordinates_[i][1]]
        lons == [i \in 1..Len(coordinates_) |-> coordinates_[i][2]]
    IN  Some(<<mean(lats), mean(lons)>>)

calculate_polygon_center(coordinates_) ==
    IF coordinates_ = <<>> THEN None
    ELSE LET lats == [i \in 1..Len(coordinates_) |-> coordinates_[i][1]]
             lons == [i \in 1..Len(coordinates_) |-> coordinates_[i][2]]
         IN  Some(<<mean(lats), mean(lons)>>)

\* the vertices a caller's list may hold
VertexSamples ==
    {<<Flt(FALSE, 109140), Flt(FALSE, 398220)>>,
     <<Flt(FALSE, 106680), Flt(FALSE, 399420)>>,
     <<Flt(TRUE, 121530), Flt(TRUE, 252960)>>,
     <<Flt(FALSE, 0), Flt(FALSE, 0)>>,
     <<Flt(FALSE, 324000), Flt(TRUE, 648000)>>}

MaxVertices == 3

InitCenter ==
    /\ pc = "input"
    /\ coordinates = <<>>
    /\ center_ret = None
    /\ IdleCoord
    /\ IdleArea
    /\ exc = NoExc
    /\ IdleGreatCircle
    /\ IdleCalls
    /\ IdleApp

\* the caller's list grows by one vertex
AppendVertex ==
    /\ pc = "input"
    /\ Len(coordinates) < MaxVertices
    /\ \E v \in VertexSamples : coordinates' = Append(coordinates, v)
    /\ UNCHANGED <<pc, given, coord_str, coord_ret, pieces, notam_text, area_ret, center_ret>>
    /\ UNCHANGED <<exc, gc_args, gc_ret, widget, log, frames, AppState>>

CallCalculatePolygonCenter ==
    /\ pc = "input"
    /\ pc' = "done"
    /\ center_ret' = calculate_polygon_center(coordinates)
    /\ exc' = NoExc
    /\ UNCHANGED <<given, coord_str, coord_ret, pieces, notam_text, area_ret, coordinates>>
    /\ UNCHANGED <<gc_args, gc_ret, widget, log, frames, AppState>>

NextCenter == AppendVertex \/ CallCalculatePolygonCenter

SpecCenter == InitCenter /\ [][NextCenter]_vars

----------------------------------------------------------------------------
(* MapView.calculate_great_circle_info, in fixed-point arithmetic.          *)
(* A float between -2 and 2 is an integer number of 1/Scale; an angle is a  *)
(* whole number of degrees, also where the code holds it in radians (so     *)
(* radians() and degrees() leave the number as it is and sin, cos take      *)
(* degrees); inverse functions answer to the nearest degree; a distance is  *)
(* a whole number of tenths of a kilometre or nautical mile.                *)

Scale == 10000

\* sin of 0..90 degrees, times Scale
SinTable ==
    <<
      0, 175, 349, 523, 698, 872, 1045, 1219, 1392, 1564, 1736, 1908, 2079,
      2250, 2419, 2588, 2756, 2924, 3090, 3256, 3420, 3584, 3746, 3907, 4067, 4226,
      4384, 4540, 4695, 4848, 5000, 5150, 5299, 5446, 5592, 5736, 5878, 6018, 6157,
      6293, 6428, 6561, 6691, 6820, 6947, 7071, 7193, 7314, 7431, 7547, 7660, 7771,
      7880, 7986, 8090, 8192, 8290, 8387, 8480, 8572, 8660, 8746, 8829, 8910, 8988,
      9063, 9135, 9205, 9272, 9336, 9397, 9455, 9511, 9563, 9613, 9659, 9703, 9744,
      9781, 9816, 9848, 9877, 9903, 9925, 9945, 9962, 9976, 9986, 9994, 9998, 10000
    >>

sin(x) ==
    LET r == x % 360
    IN  IF r <= 90 THEN SinTable[r + 1]
        ELSE IF r <= 180 THEN SinTable[180 - r + 1]
        ELSE IF r <= 270 THEN 0 - SinTable[r - 180 + 1]
        ELSE 0 - SinTable[360 - r + 1]

cos(x) == sin(x + 90)

\* the product of two floats, rounded to nearest
Mul(u, v) ==
    LET m == u * v
    IN  IF m >= 0 THEN (m + Scale \div 2) \div Scale
        ELSE 0 - ((0 - m + Scale \div 2) \div Scale)

\* the largest r in lo..hi with r * r <= n
RECURSIVE isqrt(_, _, _)
isqrt(n, lo, hi) ==
    IF lo = hi THEN lo
    ELSE LET mid == (lo + hi + 1) \div 2
         IN  IF mid * mid <= n THEN isqrt(n, mid, hi) ELSE isqrt(n, lo, mid - 1)

\* math.sqrt of a float in [0, 2]
sqrt(v) == isqrt(v * Scale, 0, 2 * Scale)

\* the angle of lo..hi degrees (within 0..90) whose sine is nearest to v
RECURSIVE nearest_sine(_, _, _)
nearest_sine(v, lo, hi) ==
    IF lo = hi THEN lo
    ELSE LET mid == (lo + hi) \div 2
         IN  IF 2 * v <= SinTable[mid + 1] + SinTable[mid + 2]
             THEN nearest_sine(v, lo, mid)
             ELSE nearest_sine(v, mid + 1, hi)

\* math.asin and math.acos raise ValueError outside [-1, 1]
in_domain(v) == 0 - Scale <= v /\ v <= Scale

asin(v) == IF v >= 0 THEN nearest_sine(v, 0, 90) ELSE 0 - nearest_sine(0 - v, 0, 90)

acos(v) == 90 - asin(v)

\* the angle of lo..hi degrees (within 0..90) along which (x, y), x, y >= 0,
\* reaches farthest
RECURSIVE best_angle(_, _, _, _)
best_angle(y, x, lo, hi) ==
    IF lo = hi THEN lo
    ELSE LET mid == (lo + hi) \div 2
         IN  IF x * cos(mid + 1) + y * sin(mid + 1) > x * cos(mid) + y * sin(mid)
             THEN best_angle(y, x, mid + 1, hi)
             ELSE best_angle(y, x, lo, mid)

\* math.atan2 in degrees, from the angle in the first quadrant; atan2(0, 0) is 0
atan2(y, x) ==
    LET q == best_angle(IF y < 0 THEN 0 - y ELSE y, IF x < 0 THEN 0 - x ELSE x, 0, 90)
    IN  IF y = 0 /\ x = 0 THEN 0
        ELSE IF y >= 0 THEN (IF x >= 0 THEN q ELSE 180 - q)
        ELSE (IF x >= 0 THEN 0 - q ELSE q - 180)

earth_radius_km == 6371

\* 0.539957 nautical miles per kilometre, in millionths
nm_per_km == 539957

\* pi times Scale
Pi == 31416

\* earth_radius_km * c, c in degrees, in tenths of a kilometre
arc_length(c) == (((earth_radius_km * Pi) \div 180) * c) \div 1000

\* distance_km * 0.539957, in tenths
to_nautical_miles(km) ==
    ((km * (nm_per_km \div 1000)) + (km * (nm_per_km % 1000)) \div 1000) \div 1000

haversine_Lat1Twice(lat1, lat2, dlat, dlon) ==
    Mul(sin(dlat \div 2), sin(dlat \div 2))
        + Mul(Mul(cos(lat1), cos(lat1)), Mul(sin(dlon \div 2), sin(dlon \div 2)))

\* a = sin(dlat/2)**2 + cos(lat1_rad) * cos(lat2_rad) * sin(dlon/2)**2
haversine(lat1, lat2, dlat, dlon) ==
    Mul(sin(dlat \div 2), sin(dlat \div 2))
        + Mul(Mul(cos(lat1), cos(lat2)), Mul(sin(dlon \div 2), sin(dlon \div 2)))

central_angle_NotDoubled(a) == asin(sqrt(a))

\* c = 2 * asin(sqrt(a))
central_angle(a) == 2 * asin(sqrt(a))

normalize_Missing(bearing) == bearing

normalize_NoModulo(bearing) == bearing + 360

\* (degrees(atan2(y, x)) + 360) % 360
normalize(bearing) == (bearing + 360) % 360

Min(u, v) == IF u <= v THEN u ELSE v

Max(u, v) == IF u >= v THEN u ELSE v

clamp_Swapped(v) == Min(0 - Scale, Max(Scale, v))

\* max(-1.0, min(1.0, cos_inclination))
clamp(v) == Max(0 - Scale, Min(Scale, v))

\* the bearing from point 1 to point 2 before it is normalised
bearing_of(lat1, lon1, lat2, lon2) ==
    LET y == Mul(sin(lon2 - lon1), cos(lat2))
        x == Mul(cos(lat1), sin(lat2)) - Mul(Mul(sin(lat1), cos(lat2)), cos(lon2 - lon1))
    IN  atan2(y, x)

\* the exception the call ends with: only asin can raise
great_circle_exc(lat1, lon1, lat2, lon2) ==
    IF in_domain(sqrt(haversine(lat1, lat2, lat2 - lat1, lon2 - lon1)))
    THEN NoExc ELSE "ValueError"

calculate_great_circle_info(lat1, lon1, lat2, lon2) ==
    LET dlat == lat2 - lat1
        dlon == lon2 - lon1
        a == haversine(lat1, lat2, dlat, dlon)
        c == central_angle(a)
        distance_km == arc_length(c)
        distance_nm == to_nautical_miles(distance_km)
        azimuth == normalize(bearing_of(lat1, lon1, lat2, lon2))
        cos_inclination == clamp(Mul(cos(lat1), sin(azimuth)))
        inclination == acos(cos_inclination)
    IN  [distance_km |-> distance_km,
         distance_nm |-> distance_nm,
         azimuth |-> azimuth,
         inclination |-> IF inclination < 0 THEN 0 - inclination ELSE inclination]

\* latitudes and longitudes a caller passes: launch sites and NOTAM centres,
\* and values outside the GeoPoint range
LatArgs == {0 - 120, 0 - 90, 0 - 60, 0, 28, 90, 100}

LonArgs == {0 - 270, 0 - 180, 0 - 80, 0, 90, 180, 200}

IdleParser == IdleCoord /\ IdleArea /\ IdleCenter

InitGreatCircle ==
    /\ pc = "input"
    /\ gc_args \in [lat1 : LatArgs, lon1 : LonArgs, lat2 : LatArgs, lon2 : LonArgs]
    /\ gc_ret = NoResult
    /\ exc = NoExc
    /\ IdleParser
    /\ IdleCalls
    /\ IdleApp

CallCalculateGreatCircleInfo ==
    /\ pc = "input"
    /\ pc' = "done"
    /\ exc' = great_circle_exc(gc_args.lat1, gc_args.lon1, gc_args.lat2, gc_args.lon2)
    /\ gc_ret' = IF exc' = NoExc
                 THEN calculate_great_circle_info(gc_args.lat1, gc_args.lon1,
                                                  gc_args.lat2, gc_args.lon2)
                 ELSE NoResult
    /\ UNCHANGED <<given, coord_str, coord_ret, pieces, notam_text, area_ret,
                   coordinates, center_ret, gc_args, widget, log, frames, AppState>>

NextGreatCircle == CallCalculateGreatCircleInfo

SpecGreatCircle == InitGreatCircle /\ [][NextGreatCircle]_vars

----------------------------------------------------------------------------
(* Calls made over the life of the widget.  The three parser functions are *)
(* static methods and receive their arguments only; the calculator is a    *)
(* method of MapView and receives the widget as self.                      *)

\* the method called with its receiver, which its body never reads
bound_calculate_great_circle_info_ShortWhenHidden(self_, lat1, lon1, lat2, lon2) ==
    IF self_.show_path
    THEN calculate_great_circle_info(lat1, lon1, lat2, lon2)
    ELSE NoResult

bound_calculate_great_circle_info(self_, lat1, lon1, lat2, lon2) ==
    calculate_great_circle_info(lat1, lon1, lat2, lon2)

\* launches the combo box offers; 0 is "nothing selected"
LaunchIds == {0, 1}

\* arguments the callers pass
CoordCallArgs == {TokenText("T1"), <<" ">> \o TokenText("TS"), LowerAll(TokenText("T1"))}

AreaCallArgs ==
    {RenderAll(<<"MARKER", "SP", "T1", "-", "TS", ".">>),
     RenderAll(<<"Marker", "T2", ",", "lowtok", ".", "T3">>),
     RenderAll(<<"T1", "-", "T2">>)}

CenterCallArgs ==
    {<<>>,
     <<<<Flt(FALSE, 109140), Flt(FALSE, 398220)>>, <<Flt(TRUE, 121530), Flt(TRUE, 252960)>>>>}

GreatCircleCallArgs ==
    {[lat1 |-> 28, lon1 |-> 0 - 80, lat2 |-> 0, lon2 |-> 90],
     [lat1 |-> 0, lon1 |-> 0, lat2 |-> 100, lon2 |-> 0]}

MaxCalls == 3

Calls == Cardinality(log.coord) + Cardinality(log.area)
             + Cardinality(log.center) + Cardinality(log.gc)

\* what a call leaves in the history: the widget as it was, the argument,
\* and the outcome
Entry(arg, failure, ret) == [self |-> widget, arg |-> arg, exc |-> failure, ret |-> ret]

InitCalls ==
    /\ pc = "input"
    /\ exc = NoExc
    /\ IdleParser
    /\ IdleGreatCircle
    /\ IdleCalls
    /\ IdleApp

\* on_launch_selected: the combo box changes the selected launch
OnLaunchSelected ==
    /\ \E id \in LaunchIds \ {widget.selected_launch} :
           widget' = [widget EXCEPT !.selected_launch = id]
    /\ UNCHANGED <<pc, given, coord_str, coord_ret, pieces, notam_text, area_ret,
                   coordinates, center_ret, exc, gc_args, gc_ret, log, frames, AppState>>

\* the "Flight Path" check box is ticked or cleared
ToggleShowPath ==
    /\ widget' = [widget EXCEPT !.show_path = ~widget.show_path]
    /\ UNCHANGED <<pc, given, coord_str, coord_ret, pieces, notam_text, area_ret,
                   coordinates, center_ret, exc, gc_args, gc_ret, log, frames, AppState>>

LoggedParseCoordinate ==
    /\ Calls < MaxCalls
    /\ \E s \in CoordCallArgs :
           log' = [log EXCEPT !.coord = @ \cup {Entry(s, NoExc, parse_coordinate(s))}]
    /\ UNCHANGED <<pc, given, coord_str, coord_ret, pieces, notam_text, area_ret,
                   coordinates, center_ret, exc, gc_args, gc_ret, widget, frames, AppState>>

LoggedParseNotamArea ==
    /\ Calls < MaxCalls
    /\ \E s \in AreaCallArgs :
           log' = [log EXCEPT !.area = @ \cup {Entry(s, NoExc, parse_notam_area(s))}]
    /\ UNCHANGED <<pc, given, coord_str, coord_ret, pieces, notam_text, area_ret,
                   coordinates, center_ret, exc, gc_args, gc_ret, widget, frames, AppState>>

LoggedCalculatePolygonCenter ==
    /\ Calls < MaxCalls
    /\ \E cs \in CenterCallArgs :
           log' = [log EXCEPT !.center = @ \cup {Entry(cs, NoExc, calculate_polygon_center(cs))}]
    /\ UNCHANGED <<pc, given, coord_str, coord_ret, pieces, notam_text, area_ret,
                   coordinates, center_ret, exc, gc_args, gc_ret, widget, frames, AppState>>

LoggedCalculateGreatCircleInfo ==
    /\ Calls < MaxCalls
    /\ \E a \in GreatCircleCallArgs :
        LET failure == great_circle_exc(a.lat1, a.lon1, a.lat2, a.lon2)
            ret == IF failure = NoExc
                   THEN bound_calculate_great_circle_info(widget, a.lat1, a.lon1,
                                                          a.lat2, a.lon2)
                   ELSE NoResult
        IN  log' = [log EXCEPT !.gc = @ \cup {Entry(a, failure, ret)}]
    /\ UNCHANGED <<pc, given, coord_str, coord_ret, pieces, notam_text, area_ret,
                   coordinates, center_ret, exc, gc_args, gc_ret, widget, frames, AppState>>

NextCalls ==
    \/ OnLaunchSelected
    \/ ToggleShowPath
    \/ LoggedParseCoordinate
    \/ LoggedParseNotamArea
    \/ LoggedCalculatePolygonCenter
    \/ LoggedCalculateGreatCircleInfo

SpecCalls == InitCalls /\ [][NextCalls]_vars

----------------------------------------------------------------------------
(* Calls made from several threads without locking.  Each thread executes  *)
(* one call a statement at a time; a library call (re.match, re.search,    *)
(* re.findall, np.mean, the math functions) is one step, an iteration of a *)
(* for loop or of a list comprehension is one step.  A list argument is    *)
(* passed by reference: every thread that calls calculate_polygon_center   *)
(* receives the one list held in coordinates.                              *)

MaxThreads == 2

Threads == 1..MaxThreads

\* no loop body runs more often than this
MaxIterations == 4

\* the frame of a call: its arguments, its local names and its return value
NoFrame ==
    [op |-> "none", pc |-> "idle", text |-> <<>>, args |-> NoArgs, held |-> <<>>,
     s |-> <<>>, bounded_text |-> <<>>, coord_strings |-> <<>>, i |-> 0, iters |-> 0,
     coordinates |-> <<>>, lats |-> <<>>, lons |-> <<>>,
     ret |-> None, info |-> NoResult, overlapped |-> FALSE]

Running(u) == frames[u].pc \notin {"idle", "returned"}

\* "coordinates = []", "lats = [...]", "lons = [...]" bind names of the
\* frame of the call itself
owner_Shared(t) == 1

owner(t) == t

\* the for statement takes the next element
next_index_Stuck(i) == i

next_index(i) == i + 1

\* thread t's frame becomes f; the step is marked when it was taken while
\* another thread was inside a call
Mark(t, f) == [f EXCEPT !.overlapped = @ \/ (\E u \in Threads \ {t} : Running(u))]

Keep(t, f) == frames' = [frames EXCEPT ![t] = Mark(t, f)]

\* as Keep, and the list bound to name is replaced by value
Bind(t, f, name, value) ==
    frames' = [u \in Threads |->
                 LET base == IF u = t THEN Mark(t, f) ELSE frames[u]
                 IN  IF u = owner(t) THEN [base EXCEPT ![name] = value] ELSE base]

Returned(f) == [f EXCEPT !.pc = "returned"]

InitThreads ==
    /\ pc = "input"
    /\ exc = NoExc
    /\ IdleCoord
    /\ IdleArea
    /\ coordinates \in CenterCallArgs
    /\ center_ret = None
    /\ IdleGreatCircle
    /\ widget = InitWidget
    /\ log = NoLog
    /\ frames = [t \in Threads |-> NoFrame]
    /\ IdleApp

Shared == <<pc, given, coord_str, coord_ret, pieces, notam_text, area_ret,
            coordinates, center_ret, exc, gc_args, gc_ret, widget, log, AppState>>

\* a thread enters one of the four functions
Enter(t) ==
    /\ frames[t].pc = "idle"
    /\ \/ \E s \in CoordCallArgs :
            Keep(t, [frames[t] EXCEPT !.op = "parse_coordinate", !.text = s,
                                      !.pc = "match"])
       \/ \E s \in AreaCallArgs :
            Keep(t, [frames[t] EXCEPT !.op = "parse_notam_area", !.text = s,
                                      !.pc = "search"])
       \/ Keep(t, [frames[t] EXCEPT !.op = "calculate_polygon_center",
                                    !.held = coordinates, !.pc = "guard"])
       \/ \E a \in GreatCircleCallArgs :
            Keep(t, [frames[t] EXCEPT !.op = "calculate_great_circle_info", !.args = a,
                                      !.pc = "compute"])
    /\ UNCHANGED Shared

\* parse_coordinate: match = re.match(pattern, coord_str.strip())
StepMatch(t) ==
    /\ frames[t].pc = "match"
    /\ \E s \in {strip(frames[t].text)} :
       IF ~re_match(pattern, s)
       THEN Keep(t, Returned([frames[t] EXCEPT !.ret = None]))
       ELSE Keep(t, [frames[t] EXCEPT !.s = s, !.pc = "decode"])
    /\ UNCHANGED Shared

\* parse_coordinate: groups, lat, lon, the signs, return (lat, lon)
StepDecode(t) ==
    /\ frames[t].pc = "decode"
    /\ Keep(t, Returned([frames[t] EXCEPT !.ret = Some(decode_groups(frames[t].s))]))
    /\ UNCHANGED Shared

\* parse_notam_area: bounded_match = re.search(...); bounded_text = group(1)
StepSearch(t) ==
    /\ frames[t].pc = "search"
    /\ \E bounded_match \in {re_search(frames[t].text)} :
       IF bounded_match = <<>>
       THEN Keep(t, Returned([frames[t] EXCEPT !.ret = None]))
       ELSE Keep(t, [frames[t] EXCEPT
                        !.bounded_text = SubSeq(frames[t].text, bounded_match[1],
                                                bounded_match[2]),
                        !.pc = "findall"])
    /\ UNCHANGED Shared

\* parse_notam_area: coord_strings = re.findall(...); coordinates = []
StepFindall(t) ==
    /\ frames[t].pc = "findall"
    /\ \E coord_strings \in {findall(coord_pattern, frames[t].bounded_text)} :
       IF coord_strings = <<>>
       THEN Keep(t, Returned([frames[t] EXCEPT !.ret = None]))
       ELSE Bind(t, [frames[t] EXCEPT !.coord_strings = coord_strings, !.i = 0,
                                      !.iters = 0, !.pc = "for"],
                 "coordinates", <<>>)
    /\ UNCHANGED Shared

\* parse_notam_area: one iteration of "for coord_str in coord_strings"
StepFor(t) ==
    /\ frames[t].pc = "for"
    /\ frames[t].i < Len(frames[t].coord_strings)
    /\ frames[t].iters < MaxIterations
    /\ \E coord \in {parse_coordinate(frames[t].coord_strings[frames[t].i + 1])},
          list \in {frames[owner(t)].coordinates} :
           Bind(t, [frames[t] EXCEPT !.i = next_index(@), !.iters = @ + 1],
                "coordinates",
                IF Truthy(coord) THEN Append(list, coord.val) ELSE list)
    /\ UNCHANGED Shared

\* parse_notam_area: return coordinates if coordinates else None
StepReturnArea(t) ==
    /\ frames[t].pc = "for"
    /\ frames[t].i >= Len(frames[t].coord_strings)
    /\ LET list == frames[owner(t)].coordinates IN
       Keep(t, Returned([frames[t] EXCEPT
                            !.ret = IF list # <<>> THEN Some(list) ELSE None]))
    /\ UNCHANGED Shared

\* calculate_polygon_center: if not coordinates: return None
StepGuard(t) ==
    /\ frames[t].pc = "guard"
    /\ IF coordinates = <<>>
       THEN Keep(t, Returned([frames[t] EXCEPT !.ret = None]))
       ELSE Bind(t, [frames[t] EXCEPT !.i = 0, !.iters = 0, !.pc = "lats"], "lats", <<>>)
    /\ UNCHANGED Shared

\* calculate_polygon_center: one element of [c[0] for c in coordinates]
StepLats(t) ==
    /\ frames[t].pc = "lats"
    /\ frames[t].iters < MaxIterations
    /\ IF frames[t].i < Len(coordinates)
       THEN Bind(t, [frames[t] EXCEPT !.i = next_index(@), !.iters = @ + 1], "lats",
                 Append(frames[owner(t)].lats, coordinates[frames[t].i + 1][1]))
       ELSE Bind(t, [frames[t] EXCEPT !.i = 0, !.iters = 0, !.pc = "lons"], "lons", <<>>)
    /\ UNCHANGED Shared

\* calculate_polygon_center: one element of [c[1] for c in coordinates]
StepLons(t) ==
    /\ frames[t].pc = "lons"
    /\ frames[t].iters < MaxIterations
    /\ IF frames[t].i < Len(coordinates)
       THEN Bind(t, [frames[t] EXCEPT !.i = next_index(@), !.iters = @ + 1], "lons",
                 Append(frames[owner(t)].lons, coordinates[frames[t].i + 1][2]))
       ELSE Keep(t, [frames[t] EXCEPT !.pc = "mean"])
    /\ UNCHANGED Shared

\* calculate_polygon_center: return (np.mean(lats), np.mean(lons))
StepMean(t) ==
    /\ frames[t].pc = "mean"
    /\ Keep(t, Returned([frames[t] EXCEPT
                            !.ret = Some(<<mean(frames[owner(t)].lats),
                                           mean(frames[owner(t)].lons)>>)]))
    /\ UNCHANGED Shared

\* what the method returns for each receiver and each argument the threads
\* pass, computed once
GreatCircleResults ==
    [w \in [selected_launch : LaunchIds, show_path : BOOLEAN], a \in GreatCircleCallArgs |->
        bound_calculate_great_circle_info(w, a.lat1, a.lon1, a.lat2, a.lon2)]

\* calculate_great_circle_info: the whole body, which has no loop
StepCompute(t) ==
    /\ frames[t].pc = "compute"
    /\ Keep(t, Returned([frames[t] EXCEPT
                            !.info = GreatCircleResults[widget, frames[t].args]]))
    /\ UNCHANGED Shared

\* thread t executes the next statement of a NotamParser function
RunParser(t) ==
    \/ StepMatch(t)
    \/ StepDecode(t)
    \/ StepSearch(t)
    \/ StepFindall(t)
    \/ StepFor(t)
    \/ StepReturnArea(t)
    \/ StepGuard(t)
    \/ StepLats(t)
    \/ StepLons(t)
    \/ StepMean(t)

CallFromThread == \E t \in Threads : Enter(t)

ParserThread == \E t \in Threads : RunParser(t)

CalculatorThread == \E t \in Threads : StepCompute(t)

NextThreads == CallFromThread \/ ParserThread \/ CalculatorThread

SpecThreads == InitThreads /\ [][NextThreads]_vars

\* the interpreter switches threads after a bounded interval, so a thread
\* that can execute a statement of a parser function does execute it
SpecThreadsFair == SpecThreads /\ \A t \in Threads : WF_vars(RunParser(t))

----------------------------------------------------------------------------
(* MapView.draw_notam_polygon *)

\* "coordinates[0] != coordinates[-1]" compares the floats of the two tuples
same_vertex(a, b) == Val(a[1]) = Val(b[1]) /\ Val(a[2]) = Val(b[2])

\* list(zip(lons, lats))
zip(lons, lats) == [i \in 1..Len(lons) |-> <<lons[i], lats[i]>>]

\* closing the caller's list itself
close_ring_InPlace(coordinates_) ==
    LET open == ~same_vertex(coordinates_[1], coordinates_[Len(coordinates_)])
        closed == IF open THEN Append(coordinates_, coordinates_[1]) ELSE coordinates_
    IN  [coordinates |-> closed,
         lats |-> [i \in 1..Len(closed) |-> closed[i][1]],
         lons |-> [i \in 1..Len(closed) |-> closed[i][2]]]

\* lats, lons and the "Close the polygon" statement; coordinates is the
\* caller's list as the statements leave it
close_ring(coordinates_) ==
    LET lats == [i \in 1..Len(coordinates_) |-> coordinates_[i][1]]
        lons == [i \in 1..Len(coordinates_) |-> coordinates_[i][2]]
        open == ~same_vertex(coordinates_[1], coordinates_[Len(coordinates_)])
    IN  [coordinates |-> coordinates_,
         lats |-> IF open THEN Append(lats, lats[1]) ELSE lats,
         lons |-> IF open THEN Append(lons, lons[1]) ELSE lons]

\* the caller's list after the call, and what was put on the map
draw_notam_polygon(self_, coordinates_, launch_lat, launch_lon) ==
    IF coordinates_ = <<>>
    THEN [coordinates |-> coordinates_, canvas |-> [NoCanvas EXCEPT !.called = TRUE]]
    ELSE LET ring == close_ring(coordinates_)
             center == calculate_polygon_center(ring.coordinates)
             shown == Truthy(center) /\ self_.show_path
         IN  [coordinates |-> ring.coordinates,
              canvas |->
                [called |-> TRUE,
                 arg |-> <<>>,
                 polygon |-> zip(ring.lons, ring.lats),
                 center |-> center,
                 path |-> IF shown
                          THEN Some(<<launch_lon, launch_lat, center.val[2], center.val[1]>>)
                          ELSE None,
                 traj |-> IF shown
                          THEN Some(<<launch_lat, launch_lon, center.val[1], center.val[2]>>)
                          ELSE None]]

\* launch sites (lat, lon) the polygon is drawn for
LaunchSites == {<<28, 0 - 80>>, <<0, 0>>}

InitDraw ==
    /\ pc = "input"
    /\ coordinates = <<>>
    /\ center_ret = None
    /\ IdleCoord
    /\ IdleArea
    /\ exc = NoExc
    /\ IdleGreatCircle
    /\ IdleCalls
    /\ IdleApp

DrawNotamPolygon ==
    /\ pc = "input"
    /\ pc' = "done"
    /\ \E site \in LaunchSites :
        LET drawn == draw_notam_polygon(widget, coordinates, site[1], site[2]) IN
        /\ coordinates' = drawn.coordinates
        /\ canvas' = [drawn.canvas EXCEPT !.arg = coordinates]
    /\ UNCHANGED <<given, coord_str, coord_ret, pieces, notam_text, area_ret, center_ret,
                   exc, gc_args, gc_ret, widget, log, frames, timeline, fetching, db, sync, worker,
                   mapview>>

NextDraw == AppendVertex \/ ToggleShowPath \/ DrawNotamPolygon

SpecDraw == InitDraw /\ [][NextDraw]_vars

----------------------------------------------------------------------------
(* Texts with several markers, given to parse_notam_area *)

\* the pieces such a text is assembled from
MarkerTextPieces == {"MARKER", ".", "-", "SP", "T0", "TS"}

MaxMarkerPieces == 5

InitMarkers ==
    /\ pc = "input"
    /\ IdleArea
    /\ IdleCoord
    /\ IdleCenter
    /\ exc = NoExc
    /\ IdleGreatCircle
    /\ IdleCalls
    /\ IdleApp

\* the caller's text grows by one piece
AppendMarkerPiece ==
    /\ pc = "input"
    /\ Len(pieces) < MaxMarkerPieces
    /\ \E p \in MarkerTextPieces :
        /\ pieces' = Append(pieces, p)
        /\ notam_text' = notam_text \o Render(p)
    /\ UNCHANGED <<pc, given, coord_str, coord_ret, area_ret, coordinates, center_ret>>
    /\ UNCHANGED <<exc, gc_args, gc_ret, widget, log, frames, AppState>>

NextMarkers == AppendMarkerPiece \/ CallParseNotamArea

SpecMarkers == InitMarkers /\ [][NextMarkers]_vars

----------------------------------------------------------------------------
(* ReentryTimelineView.update_timeline, for the row of one drop zone *)

\* calendar.monthrange(year, month)[1]
monthrange(year, month) ==
    IF month = 2
    THEN IF (year % 4 = 0 /\ year % 100 # 0) \/ year % 400 = 0 THEN 29 ELSE 28
    ELSE IF month \in {4, 6, 9, 11} THEN 30 ELSE 31

\* Reentry.objects.filter(reentry_date__year = year, reentry_date__month = month)
filter(reentries, year, month) ==
    {r \in reentries : r.year = year /\ r.month = month}

\* the year and the month before the one shown
prev_year_of(year, month) == IF month - 1 < 1 THEN year - 1 ELSE year

prev_month_of(month) == IF month - 1 < 1 THEN 12 ELSE month - 1

\* "Get re-entries for this month"
current_month_reentries(view) ==
    filter(view.reentries, view.current_year, view.current_month)

\* "Also get re-entries from the end of previous month": the filter is given
\* current_year and current_month again
prev_month_reentries(view) ==
    filter(view.reentries, view.current_year, view.current_month)

\* the background of the cell of col_day
cell(view, col_day) ==
    LET row_reentries == current_month_reentries(view)
        row_prev == prev_month_reentries(view)
        zone_turnaround == view.turnaround_days
        day_reentries == {r \in row_reentries : r.day = col_day}
        days_in_prev_month ==
            monthrange(prev_year_of(view.current_year, view.current_month),
                       prev_month_of(view.current_month))
        in_month ==
            \E r \in row_reentries : r.day < col_day /\ col_day <= r.day + zone_turnaround
        carried ==
            \E p \in row_prev :
                LET days_past_month_end == (p.day + zone_turnaround) - days_in_prev_month
                IN  days_past_month_end > 0 /\ col_day <= days_past_month_end
    IN  IF day_reentries # {} THEN "reentry"
        ELSE IF in_month \/ carried THEN "recovery"
        ELSE "clear"

\* the daily cells of the row
update_timeline(view) ==
    [view EXCEPT !.cells =
        [col_day \in 1..monthrange(view.current_year, view.current_month) |->
            cell(view, col_day)]]

\* months the view may show, dates of the re-entries that may be saved,
\* turnaround days of the zone
ShownMonths == {<<2025, 1>>, <<2025, 3>>}

ReentryDates ==
    {[year |-> 2024, month |-> 12, day |-> 30],
     [year |-> 2025, month |-> 1, day |-> 28],
     [year |-> 2025, month |-> 2, day |-> 20],
     [year |-> 2025, month |-> 2, day |-> 27],
     [year |-> 2025, month |-> 3, day |-> 2],
     [year |-> 2025, month |-> 3, day |-> 27]}

TurnaroundDays == {0, 3, 7}

MaxReentries == 2


InitTimeline ==
    /\ pc = "input"
    /\ exc = NoExc
    /\ IdleParser
    /\ IdleGreatCircle
    /\ IdleCalls
    /\ canvas = NoCanvas
    /\ fetching = NoFetch
    /\ db = NoRows
    /\ sync = NoSync
    /\ worker = NoWorker
    /\ mapview = NoMapView
    /\ \E m \in ShownMonths, t \in TurnaroundDays :
         timeline = [NoTimeline EXCEPT !.current_year = m[1], !.current_month = m[2],
                                       !.turnaround_days = t]

\* a re-entry of the zone is saved
SaveReentry ==
    /\ pc = "input"
    /\ Cardinality(timeline.reentries) < MaxReentries
    /\ \E r \in ReentryDates \ timeline.reentries :
         timeline' = [timeline EXCEPT !.reentries = @ \cup {r}]
    /\ UNCHANGED <<pc, given, coord_str, coord_ret, pieces, notam_text, area_ret,
                   coordinates, center_ret, exc, gc_args, gc_ret, widget, log, frames,
                   canvas, fetching, db, sync, worker, mapview>>

UpdateTimeline ==
    /\ pc = "input"
    /\ pc' = "done"
    /\ timeline' = update_timeline(timeline)
    /\ UNCHANGED <<given, coord_str, coord_ret, pieces, notam_text, area_ret,
                   coordinates, center_ret, exc, gc_args, gc_ret, widget, log, frames,
                   canvas, fetching, db, sync, worker, mapview>>

NextTimeline == SaveReentry \/ UpdateTimeline

SpecTimeline == InitTimeline /\ [][NextTimeline]_vars

----------------------------------------------------------------------------
(* SpaceDevsClient._fetch, called by fetch_upcoming_launches and           *)
(* fetch_previous_launches.  A request is one step; the API answers with   *)
(* as many items as the page size asks for, or with the items it has left. *)

\* params["limit"] of the first page: min(max_launches, 100)
first_limit(max_launches) == IF max_launches < 100 THEN max_launches ELSE 100

\* params["limit"] of every later page
next_limit(max_results, num_results) ==
    IF (max_results - num_results) % 100 = 0 THEN 100
    ELSE (max_results - num_results) % 100

\* session.get and the bookkeeping after it: the page is added to results,
\* url becomes response_json["next"], num_results grows by the page size
get(f) ==
    LET content == IF f.available - f.offset < f.limit
                   THEN f.available - f.offset ELSE f.limit
    IN  [f EXCEPT !.results = @ + content,
                  !.offset = @ + content,
                  !.more = f.offset + content < f.available,
                  !.requested = @ + f.limit,
                  !.num_results = @ + f.limit]

\* max_launches a caller passes, and the number of launches the API holds
MaxResultsArgs == {1, 50, 100, 130, 200, 203}

AvailableItems == {0, 70, 150, 400}

InitFetch ==
    /\ pc = "input"
    /\ exc = NoExc
    /\ IdleParser
    /\ IdleGreatCircle
    /\ IdleCalls
    /\ canvas = NoCanvas
    /\ timeline = NoTimeline
    /\ db = NoRows
    /\ sync = NoSync
    /\ worker = NoWorker
    /\ mapview = NoMapView
    /\ \E m \in MaxResultsArgs, n \in AvailableItems :
         fetching = [NoFetch EXCEPT !.pc = "first", !.max_results = m, !.available = n,
                                    !.limit = first_limit(m)]

FetchUnchanged ==
    UNCHANGED <<pc, given, coord_str, coord_ret, pieces, notam_text, area_ret,
                coordinates, center_ret, exc, gc_args, gc_ret, widget, log, frames,
                canvas, timeline, db, sync, worker, mapview>>

\* the request for the first page
FirstPage ==
    /\ fetching.pc = "first"
    /\ LET f == get(fetching) IN
       fetching' = [f EXCEPT !.limit = next_limit(f.max_results, f.num_results),
                             !.pc = "while"]
    /\ FetchUnchanged

\* one iteration of "while url is not None and num_results < max_results"
NextPage ==
    /\ fetching.pc = "while"
    /\ fetching.more /\ fetching.num_results < fetching.max_results
    /\ fetching' = get(fetching)
    /\ FetchUnchanged

\* the loop ends: return results
ReturnResults ==
    /\ fetching.pc = "while"
    /\ ~(fetching.more /\ fetching.num_results < fetching.max_results)
    /\ fetching' = [fetching EXCEPT !.pc = "returned"]
    /\ FetchUnchanged

\* a request fails or answers with a status other than 200: return []
FetchFails ==
    /\ fetching.pc \in {"first", "while"}
    /\ fetching.pc = "while" => (fetching.more /\ fetching.num_results < fetching.max_results)
    /\ fetching' = [fetching EXCEPT !.results = 0, !.pc = "returned"]
    /\ FetchUnchanged

NextFetch == FirstPage \/ NextPage \/ ReturnResults \/ FetchFails

SpecFetch == InitFetch /\ [][NextFetch]_vars

----------------------------------------------------------------------------
(* SpaceDevsClient._sync_launch_to_db and the three sync loops *)

\* objects.update_or_create(external_id = ..., defaults = ...): the row with
\* this external_id is replaced, or a new row is created
update_or_create(rows, external_id, rev) ==
    {r \in rows : r.external_id # external_id}
        \cup {[external_id |-> external_id, rev |-> rev]}

\* what _parse_launch_data makes of an API launch: {} when parsing raised
parsed_ok(launch) == launch.fault # "parse"

\* _sync_launch_to_db: the rows after the call, the action returned, and
\* whether an exception left the call (parsed_data["launch_data"] on {})
sync_launch_to_db(rows, launch) ==
    IF ~parsed_ok(launch) THEN [db |-> rows, action |-> "none", raised |-> TRUE]
    ELSE IF launch.fault = "site" THEN [db |-> rows, action |-> "skipped", raised |-> FALSE]
    ELSE LET with_site ==
                 [rows EXCEPT !.sites = update_or_create(@, launch.site, launch.rev)]
         IN  IF launch.fault = "rocket"
             THEN [db |-> with_site, action |-> "skipped", raised |-> FALSE]
             ELSE LET with_rocket ==
                          [with_site EXCEPT
                              !.rockets = update_or_create(@, launch.rocket, launch.rev)]
                  IN  IF launch.fault = "launch"
                      THEN [db |-> with_rocket, action |-> "skipped", raised |-> FALSE]
                      ELSE [db |-> [with_rocket EXCEPT
                                       !.launches =
                                           update_or_create(@, launch.id, launch.rev)],
                            action |-> "added", raised |-> FALSE]

\* "for launch in api_launches": the rows and the counters after the loop;
\* counts_errors says whether the except branch has "skipped += 1"
RECURSIVE sync_loop(_, _, _, _)
sync_loop(rows, api_launches, stats, counts_errors) ==
    IF api_launches = <<>> THEN [db |-> rows, stats |-> stats]
    ELSE LET done == sync_launch_to_db(rows, Head(api_launches))
             counted ==
                 IF done.raised
                 THEN [stats EXCEPT !.errors = @ + 1,
                                    !.skipped = IF counts_errors THEN @ + 1 ELSE @]
                 ELSE IF done.action = "added" THEN [stats EXCEPT !.added = @ + 1]
                 ELSE IF done.action = "updated" THEN [stats EXCEPT !.updated = @ + 1]
                 ELSE [stats EXCEPT !.skipped = @ + 1]
         IN  sync_loop(done.db, Tail(api_launches), counted, counts_errors)

\* the statistics dict a sync returns
sync_launches(rows, api_launches, counts_errors) ==
    sync_loop(rows, api_launches,
              [NoStats EXCEPT !.total_processed = Len(api_launches)], counts_errors)

\* the launches the API may return: two launches of two sites on one rocket,
\* in two revisions, and what goes wrong with them
Faults == {"none", "parse", "site", "rocket", "launch"}

ApiLaunches ==
    {[id |-> l[1], site |-> l[2], rocket |-> "R1", rev |-> v, fault |-> f] :
        l \in {<<"L1", "S1">>, <<"L2", "S2">>}, v \in {1, 2}, f \in Faults}

MaxLaunches == 2

ApiLists ==
    {<<>>} \cup {<<a>> : a \in ApiLaunches}
           \cup {<<a, b>> : a \in {x \in ApiLaunches : x.id = "L1"},
                            b \in {x \in ApiLaunches : x.id = "L2" /\ x.rev = 1}}

InitSync ==
    /\ pc = "input"
    /\ exc = NoExc
    /\ IdleParser
    /\ IdleGreatCircle
    /\ IdleCalls
    /\ canvas = NoCanvas
    /\ timeline = NoTimeline
    /\ fetching = NoFetch
    /\ db = NoRows
    /\ sync = NoSync
    /\ worker = NoWorker
    /\ mapview = NoMapView

SyncUnchanged ==
    UNCHANGED <<pc, given, coord_str, coord_ret, pieces, notam_text, area_ret,
                coordinates, center_ret, exc, gc_args, gc_ret, widget, log, frames,
                canvas, timeline, fetching, worker, mapview>>

\* one launch is parsed and synced
SyncLaunchToDb ==
    /\ \E launch \in ApiLaunches :
        LET done == sync_launch_to_db(db, launch) IN
        /\ db' = done.db
        /\ sync' = [NoSync EXCEPT !.called = "_sync_launch_to_db", !.launch = launch.id,
                                  !.fault = launch.fault,
                                  !.existed = \E r \in db.launches : r.external_id = launch.id,
                                  !.before = db, !.action = done.action]
    /\ SyncUnchanged

Synced(name, api_launches, counts_errors) ==
    LET done == sync_launches(db, api_launches, counts_errors) IN
    /\ Len(api_launches) <= MaxLaunches
    /\ db' = done.db
    /\ sync' = [NoSync EXCEPT !.called = name, !.before = db, !.stats = done.stats]
    /\ SyncUnchanged

SyncUpcomingLaunches ==
    \E api_launches \in ApiLists : Synced("sync_upcoming_launches", api_launches, TRUE)

SyncDateRange ==
    \E api_launches \in ApiLists : Synced("sync_date_range", api_launches, FALSE)

SyncPreviousLaunches ==
    \E api_launches \in ApiLists : Synced("sync_previous_launches", api_launches, FALSE)

NextSync ==
    \/ SyncLaunchToDb
    \/ SyncUpcomingLaunches
    \/ SyncDateRange
    \/ SyncPreviousLaunches

SpecSync == InitSync /\ [][NextSync]_vars

----------------------------------------------------------------------------
(* SyncWorker.run and MainWindow.sync_finished *)

SyncTypes == {"upcoming", "previous", "rockets", "other"}

\* the dict sync_upcoming_launches and sync_previous_launches return
stats_dict(stats) ==
    [added |-> stats.added, updated |-> stats.updated, skipped |-> stats.skipped,
     errors |-> stats.errors, total_processed |-> stats.total_processed]

\* the dicts sync_rocket_details may return for these Rocket rows: some
\* rockets are updated, some raise, the rest are not found
sync_rocket_details(rockets) ==
    {[updated |-> c[1], errors |-> c[2]] :
        c \in {d \in (0 .. Cardinality(rockets)) \X (0 .. Cardinality(rockets)) :
                    d[1] + d[2] <= Cardinality(rockets)}}

\* the dict of the final else branch, and of the except branch with e
\* the number of error strings
empty_result(e) == [added |-> 0, updated |-> 0, errors |-> e]

\* the keys sync_finished reads with result[...]
keys_read == {"added", "updated"}

InitWorker ==
    /\ pc = "input"
    /\ exc = NoExc
    /\ IdleParser
    /\ IdleGreatCircle
    /\ IdleCalls
    /\ canvas = NoCanvas
    /\ timeline = NoTimeline
    /\ fetching = NoFetch
    /\ db = NoRows
    /\ sync = NoSync
    /\ worker = NoWorker
    /\ mapview = NoMapView

WorkerUnchanged ==
    UNCHANGED <<pc, given, coord_str, coord_ret, pieces, notam_text, area_ret,
                coordinates, center_ret, exc, gc_args, gc_ret, widget, log, frames,
                canvas, timeline, fetching, sync, mapview>>

\* a SyncWorker is created for a sync_type
StartSync ==
    /\ \E sync_type \in SyncTypes :
        worker' = [NoWorker EXCEPT !.state = "created", !.sync_type = sync_type]
    /\ UNCHANGED db
    /\ WorkerUnchanged

Emit(result) ==
    worker' = [worker EXCEPT !.state = "finished", !.emitted = Append(@, result)]

\* run() with a sync that returns
RunReturns ==
    /\ worker.state = "created"
    /\ \/ /\ worker.sync_type \in {"upcoming", "previous"}
          /\ \E api_launches \in ApiLists :
                LET done == sync_launches(db, api_launches, worker.sync_type = "upcoming") IN
                /\ db' = done.db
                /\ Emit(stats_dict(done.stats))
       \/ /\ worker.sync_type = "rockets"
          /\ \E result \in sync_rocket_details(db.rockets) : Emit(result)
          /\ UNCHANGED db
       \/ /\ worker.sync_type \notin {"upcoming", "previous", "rockets"}
          /\ Emit(empty_result(0))
          /\ UNCHANGED db
    /\ WorkerUnchanged

\* run() with a sync that raises: the except branch emits
RunRaises ==
    /\ worker.state = "created"
    /\ worker.sync_type \in {"upcoming", "previous", "rockets"}
    /\ Emit(empty_result(1))
    /\ UNCHANGED db
    /\ WorkerUnchanged

\* sync_finished(result): result['added'], result['updated'], result.get('errors')
SyncFinished ==
    /\ worker.state = "finished"
    /\ worker.handled = "none"
    /\ worker' = [worker EXCEPT
                     !.handled = IF keys_read \subseteq DOMAIN worker.emitted[1]
                                 THEN "shown" ELSE "KeyError"]
    /\ UNCHANGED db
    /\ WorkerUnchanged

NextWorker ==
    \/ StartSync
    \/ RunReturns
    \/ RunRaises
    \/ SyncFinished

SpecWorker == InitWorker /\ [][NextWorker]_vars

----------------------------------------------------------------------------
(* MapView (gui/map_view.py): parse_custom_notam and clear_custom_notam *)

\* a launch dict as get_launches_by_date_range returns it
launch_dict(launch_id) == [none |-> FALSE, launch_id |-> launch_id, custom_notam |-> None]

\* parse_custom_notam storing whatever the parser returned
parse_custom_notam_StoresUnparsed(self_) ==
    LET notam_text_ == strip(self_.custom_notam_text)
        coordinates_ == parse_notam_area(notam_text_)
    IN  IF notam_text_ = <<>> THEN self_
        ELSE IF ~self_.selected_launch.none
        THEN [self_ EXCEPT !.selected_launch.custom_notam = Some(coordinates_.val),
                           !.status_label = "parsed"]
        ELSE [self_ EXCEPT !.status_label = "select a launch"]

\* parse_custom_notam: the view after the call
parse_custom_notam(self_) ==
    LET notam_text_ == strip(self_.custom_notam_text)
        coordinates_ == parse_notam_area(notam_text_)
    IN  IF notam_text_ = <<>> THEN self_
        ELSE IF ~Truthy(coordinates_)
        THEN [self_ EXCEPT !.status_label = "could not parse"]
        ELSE IF ~self_.selected_launch.none
        THEN [self_ EXCEPT !.selected_launch.custom_notam = coordinates_,
                           !.status_label = "parsed"]
        ELSE [self_ EXCEPT !.status_label = "select a launch"]

\* clear_custom_notam: the view after the call
clear_custom_notam(self_) ==
    [self_ EXCEPT !.selected_launch.custom_notam = None,
                  !.custom_notam_text = <<>>,
                  !.status_label = "cleared"]

\* what the user may have in the text box
CustomNotamTexts ==
    {<<>>, <<"SP">>, <<"T1">>, <<"MARKER", "SP">>, <<"MARKER", "T0">>,
     <<"NL", "MARKER", "T1", "-", "T2", "SP">>, DocExample}

\* launch_combo.currentData(): None (0), or the id of a launch
ComboData == {0, 1, 2}

InitMapView ==
    /\ pc = "input"
    /\ exc = NoExc
    /\ IdleParser
    /\ IdleGreatCircle
    /\ IdleCalls
    /\ canvas = NoCanvas
    /\ timeline = NoTimeline
    /\ fetching = NoFetch
    /\ db = NoRows
    /\ sync = NoSync
    /\ worker = NoWorker
    /\ mapview = NoMapView

MapViewUnchanged ==
    UNCHANGED <<pc, given, coord_str, coord_ret, pieces, notam_text, area_ret,
                coordinates, center_ret, exc, gc_args, gc_ret, widget, log, frames,
                canvas, timeline, fetching, db, sync, worker>>

Call(name, after) ==
    mapview' = [after EXCEPT !.called = name, !.before = mapview.selected_launch,
                             !.text = mapview.custom_notam_text]

\* the user edits the text box
EditCustomNotamText ==
    /\ \E ps \in CustomNotamTexts :
        mapview' = [mapview EXCEPT !.custom_notam_text = RenderAll(ps), !.called = "none"]
    /\ MapViewUnchanged

\* on_launch_selected: the launch is read from the database again
MapViewOnLaunchSelected ==
    /\ \E launch_id \in ComboData :
        Call("on_launch_selected",
             [mapview EXCEPT !.selected_launch =
                 IF launch_id = 0 THEN NoLaunch ELSE launch_dict(launch_id)])
    /\ MapViewUnchanged

ParseCustomNotam ==
    /\ Call("parse_custom_notam", parse_custom_notam(mapview))
    /\ MapViewUnchanged

ClearCustomNotam ==
    /\ Call("clear_custom_notam", clear_custom_notam(mapview))
    /\ MapViewUnchanged

NextMapView ==
    \/ EditCustomNotamText
    \/ MapViewOnLaunchSelected
    \/ ParseCustomNotam
    \/ ClearCustomNotam

SpecMapView == InitMapView /\ [][NextMapView]_vars

----------------------------------------------------------------------------
(* Claims about parse_coordinate, checked under SpecCoord *)

\* s is exactly one 15-character token [NS]DDMMSS[EW]DDDMMSS
ExactToken(s) ==
    /\ Len(s) = 15
    /\ s[1] \in {"N", "S"}
    /\ s[8] \in {"E", "W"}
    /\ \A i \in (2..7) \cup (9..15) : s[i] \in DigitSet

\* s is some whitespace followed by a token, followed by anything
TokenAfterWhitespace(s) ==
    \E k \in 0..Len(s) :
        /\ \A i \in 1..k : s[i] \in Whitespace
        /\ Len(s) >= k + 15
        /\ ExactToken(SubSeq(s, k + 1, k + 15))

\* the call was made on a string built around a token, and has returned
DoneToken == pc = "done" /\ given.kind = "token"

\* the caller's token fields, in arc-seconds
GivenLatMag == 3600 * given.d1 + 60 * given.m1 + given.s1

GivenLonMag == 3600 * given.d2 + 60 * given.m2 + given.s2

\* C1: for every string that is exactly a token [NS]DDMMSS[EW]DDDMMSS,
\* parse_coordinate returns (lat, lon) with |lat| = 3600*DD + 60*MM + SS and
\* |lon| = 3600*DDD + 60*MM + SS arc-seconds, lat carrying the minus sign
\* exactly when the first letter is S and lon exactly when the second is W.
C1_DecodesFields ==
    (DoneToken /\ given.mut = "none") =>
        /\ ~coord_ret.none
        /\ coord_ret.val[1].mag = GivenLatMag
        /\ coord_ret.val[2].mag = GivenLonMag
        /\ coord_ret.val[1].neg <=> (given.ld = "S")
        /\ coord_ret.val[2].neg <=> (given.od = "W")

C1_Witness ==
    /\ DoneToken /\ given.mut = "none"
    /\ given.ld = "S" /\ given.od = "W"
    /\ ~coord_ret.none
    /\ Val(coord_ret.val[1]) = 0 - (3600 * 30 + 60 * 59 + 59)
    /\ Val(coord_ret.val[2]) = 0 - (3600 * 110 + 60 * 60 + 59)

\* C2 as stated: parse_coordinate fails for every string that is not exactly
\* one 15-character token (extra characters after a token, whitespace around
\* it, lowercase direction letters).
C2_FailsUnlessExactToken ==
    (pc = "done" /\ ~ExactToken(coord_str)) => coord_ret.none

\* C2 as amended: parse_coordinate fails exactly for the strings that, after
\* their leading whitespace, do not begin with a 15-character token
\* [NS]DDMMSS[EW]DDDMMSS with uppercase direction letters; a token with
\* whitespace around it or with extra characters after it decodes as the
\* token alone.
C2_FailsUnlessTokenPrefix ==
    /\ pc = "done" => (coord_ret.none <=> ~TokenAfterWhitespace(coord_str))
    /\ (DoneToken /\ ~coord_ret.none) =>
           /\ Val(coord_ret.val[1]) = (IF given.ld = "S" THEN 0 - GivenLatMag ELSE GivenLatMag)
           /\ Val(coord_ret.val[2]) = (IF given.od = "W" THEN 0 - GivenLonMag ELSE GivenLonMag)
    /\ (DoneToken /\ given.mut \in {"lower_lat", "lower_lon"}) => coord_ret.none

C2_Witness ==
    /\ DoneToken
    /\ given.mut = "both_ws"
    /\ ~ExactToken(coord_str)
    /\ ~coord_ret.none

\* C7: round trip.  A latitude in [-90, 90] and a longitude in [-180, 180]
\* in whole arc-seconds, encoded as a token and decoded by parse_coordinate,
\* come back unchanged.
C7_RoundTrip ==
    (pc = "done" /\ given.kind = "point") =>
        /\ ~coord_ret.none
        /\ Val(coord_ret.val[1]) = given.lat
        /\ Val(coord_ret.val[2]) = given.lon

C7_Witness ==
    /\ pc = "done" /\ given.kind = "point"
    /\ given.lat = 0 - 323999 /\ given.lon = 647999
    /\ ~coord_ret.none
    /\ Val(coord_ret.val[1]) = 0 - 323999
    /\ Val(coord_ret.val[2]) = 647999

\* the token's minute and second fields are all at most 59
GivenSubDegreeValid ==
    given.m1 <= 59 /\ given.s1 <= 59 /\ given.m2 <= 59 /\ given.s2 <= 59

InGeoPointRange(p) ==
    p[1].mag <= 90 * 3600 /\ p[2].mag <= 180 * 3600

\* C8 as stated: every successful result for a token whose minute and second
\* fields are at most 59 has latitude in [-90, 90] and longitude in
\* [-180, 180].
C8_ResultInRange ==
    (DoneToken /\ GivenSubDegreeValid /\ ~coord_ret.none) =>
        InGeoPointRange(coord_ret.val)

\* C8 as amended: every successful result for a token whose minute and second
\* fields are at most 59 has |latitude| < 100 and |longitude| < 1000 degrees,
\* the bounds of the two- and three-digit degree fields, and lies in the
\* GeoPoint range exactly when the token's own degrees, minutes and seconds
\* do: parse_coordinate applies no range check.
C8_ResultWithinFieldWidth ==
    (DoneToken /\ GivenSubDegreeValid /\ ~coord_ret.none) =>
        /\ coord_ret.val[1].mag < 100 * 3600
        /\ coord_ret.val[2].mag < 1000 * 3600
        /\ InGeoPointRange(coord_ret.val) <=>
               (GivenLatMag <= 90 * 3600 /\ GivenLonMag <= 180 * 3600)

C8_Witness ==
    /\ DoneToken /\ GivenSubDegreeValid
    /\ given.d1 = 99 /\ given.m1 = 59 /\ given.s1 = 59
    /\ ~coord_ret.none
    /\ coord_ret.val[1].mag = 100 * 3600 - 1
    /\ ~InGeoPointRange(coord_ret.val)

\* C9: a token whose minute or second field is 60 or more is not rejected:
\* it decodes through the same formula (N006000E0000000 gives latitude 1.0,
\* that is 3600 arc-seconds).
C9_NoNumericValidation ==
    /\ (DoneToken /\ given.mut = "none" /\ ~GivenSubDegreeValid) =>
           /\ ~coord_ret.none
           /\ coord_ret.val[1].mag = GivenLatMag
           /\ coord_ret.val[2].mag = GivenLonMag
    /\ (pc = "done" /\ coord_str = Token("N", 0, 60, 0, "E", 0, 0, 0)) =>
           coord_ret = Some(<<Flt(FALSE, 3600), Flt(FALSE, 0)>>)

C9_Witness ==
    /\ pc = "done"
    /\ coord_str = Token("N", 0, 60, 0, "E", 0, 0, 0)
    /\ ~coord_ret.none
    /\ Val(coord_ret.val[1]) = 3600

----------------------------------------------------------------------------
(* Claims about parse_notam_area, checked under SpecArea *)

PeriodPieces == {".", "..."}

\* the marker pieces that are followed by at least one non-period character
UsableMarkers(ps) ==
    {i \in 1..Len(ps) : ps[i] \in MarkerNames /\ i < Len(ps) /\ ps[i + 1] \notin PeriodPieces}

Least(S) == CHOOSE x \in S : \A y \in S : x <= y

\* the pieces between the leftmost usable marker and the next period
SpanPieces(ps) ==
    LET i == Least(UsableMarkers(ps))
        stops == {e \in (i + 1)..Len(ps) : ps[e] \in PeriodPieces} \cup {Len(ps) + 1}
    IN  SubSeq(ps, i + 1, Least(stops) - 1)

IsTokenPiece(p) == p \in TokenNames

SpanTokens(ps) ==
    IF UsableMarkers(ps) = {} THEN <<>> ELSE SelectSeq(SpanPieces(ps), IsTokenPiece)

\* the point a token names, from its field values
Vertex(n) ==
    LET f == TokenFields[n]
    IN  <<Flt(f[1] = "S", 3600 * f[2] + 60 * f[3] + f[4]),
          Flt(f[5] = "W", 3600 * f[6] + 60 * f[7] + f[8])>>

DoneArea == pc = "done" /\ pieces # DocExample

\* C3: the marker is recognised in any letter case, and vertices come only
\* from the span between the marker and the next period (or the end of the
\* text): the result is the one for the upper-case marker followed by the
\* span alone, and it has as many vertices as the span has tokens, whatever
\* tokens stand before the marker or after the period.
C3_OnlyTheMarkerSpan ==
    (DoneArea /\ UsableMarkers(pieces) # {}) =>
        /\ area_ret = parse_notam_area(marker \o RenderAll(SpanPieces(pieces)))
        /\ Len(area_ret.val) = Len(SpanTokens(pieces))
        /\ \A k \in 1..Len(area_ret.val) :
               \E j \in 1..Len(SpanTokens(pieces)) : area_ret.val[k] = Vertex(SpanTokens(pieces)[j])

C3_Witness ==
    /\ DoneArea
    /\ pieces = <<"T1", "Marker", "TS", ".", "T0">>
    /\ area_ret = Some(<<Vertex("TS")>>)

\* every delimiter replaced by a dash
RECURSIVE Dashed(_)
Dashed(ps) ==
    IF ps = <<>> THEN <<>>
    ELSE <<IF Head(ps) \in Delimiters THEN "-" ELSE Head(ps)>> \o Dashed(Tail(ps))

\* C4: a successful result is exactly the decoded tokens of the span, one
\* vertex per token, in text order, duplicates and (0.0, 0.0) kept, nothing
\* added, and the same whichever delimiters separate the tokens.
C4_VerticesInTextOrder ==
    (DoneArea /\ ~area_ret.none) =>
        /\ area_ret.val = [k \in 1..Len(SpanTokens(pieces)) |-> Vertex(SpanTokens(pieces)[k])]
        /\ area_ret = parse_notam_area(RenderAll(Dashed(pieces)))

C4_Witness ==
    /\ DoneArea
    /\ pieces = <<"MARKER", "T0", "TS", "T0">>
    /\ ~area_ret.none
    /\ Len(area_ret.val) = 3
    /\ area_ret.val[1] = area_ret.val[3]
    /\ area_ret.val[1] = <<Flt(FALSE, 0), Flt(FALSE, 0)>>

\* C5: a text without marker, and a text whose marker span holds no
\* well-formed token, give None, never an empty list; every successful
\* result has at least one vertex.
C5_NoneNeverEmpty ==
    pc = "done" =>
        /\ (\A i \in 1..Len(pieces) : pieces[i] \notin MarkerNames) => area_ret.none
        /\ SpanTokens(pieces) = <<>> => area_ret.none
        /\ ~area_ret.none => Len(area_ret.val) >= 1

C5_Witness ==
    /\ pc = "done"
    /\ UsableMarkers(pieces) # {}
    /\ SpanTokens(pieces) = <<>>
    /\ \E i \in 1..Len(pieces) : pieces[i] = "lowtok"
    /\ area_ret.none

\* C6: the docstring's text gives exactly its four vertices in text order,
\* the first being 109140 and 398220 arc-seconds (30 19 00 N, 110 37 00 E);
\* ", BACK TO START" adds none.
C6_DocExample ==
    (pc = "done" /\ pieces = DocExample) =>
        /\ ~area_ret.none
        /\ Len(area_ret.val) = 4
        /\ area_ret.val[1] = <<Flt(FALSE, 109140), Flt(FALSE, 398220)>>
        /\ area_ret.val = <<Vertex("T1"), Vertex("T2"), Vertex("T3"), Vertex("T4")>>

C6_Witness ==
    /\ pc = "done"
    /\ pieces = DocExample
    /\ Len(notam_text) = 94
    /\ ~area_ret.none
    /\ Len(area_ret.val) = 4

----------------------------------------------------------------------------
(* Claims about calculate_polygon_center, checked under SpecCenter *)

\* the sum of f over the index set S
RECURSIVE SumOver(_, _)
SumOver(S, f) ==
    IF S = {} THEN 0
    ELSE LET i == CHOOSE x \in S : TRUE IN f[i] + SumOver(S \ {i}, f)

\* equality of two quotients
SameRat(a, b) == a.num * b.den = b.num * a.den

Reorderings(n) == {f \in [1..n -> 1..n] : \A i, j \in 1..n : f[i] = f[j] => i = j}

\* C10: for a non-empty vertex list the result is (sum of latitudes / n,
\* sum of longitudes / n), the same for every reordering of the vertices,
\* and the vertex itself when n = 1.
C10_MeanPerAxis ==
    (pc = "done" /\ coordinates # <<>>) =>
        LET n == Len(coordinates) IN
        /\ ~center_ret.none
        /\ SameRat(center_ret.val[1],
                   Rat(SumOver(1..n, [i \in 1..n |-> Val(coordinates[i][1])]), n))
        /\ SameRat(center_ret.val[2],
                   Rat(SumOver(1..n, [i \in 1..n |-> Val(coordinates[i][2])]), n))
        /\ \A f \in Reorderings(n) :
               LET other == calculate_polygon_center([i \in 1..n |-> coordinates[f[i]]])
               IN  /\ SameRat(other.val[1], center_ret.val[1])
                   /\ SameRat(other.val[2], center_ret.val[2])
        /\ n = 1 => /\ SameRat(center_ret.val[1], Rat(Val(coordinates[1][1]), 1))
                    /\ SameRat(center_ret.val[2], Rat(Val(coordinates[1][2]), 1))

C10_Witness ==
    /\ pc = "done"
    /\ Len(coordinates) = 3
    /\ coordinates[1] # coordinates[2] /\ coordinates[2] # coordinates[3]
    /\ coordinates[1][1].neg # coordinates[2][1].neg
    /\ ~center_ret.none
    /\ center_ret.val[1].den = 3
    /\ center_ret.val[1].num = 109140 - 121530 + 324000

----------------------------------------------------------------------------
(* Claims about calculate_great_circle_info, checked under SpecGreatCircle *)

ValidPoint(lat, lon) == 0 - 90 <= lat /\ lat <= 90 /\ 0 - 180 <= lon /\ lon <= 180

ValidArgs ==
    ValidPoint(gc_args.lat1, gc_args.lon1) /\ ValidPoint(gc_args.lat2, gc_args.lon2)

\* the call was made on two valid points and has returned its dict
DoneValid == pc = "done" /\ ValidArgs /\ exc = NoExc

Dist(u, v) == IF u >= v THEN u - v ELSE v - u

\* C12: whenever a latitude is outside [-90, 90] or a longitude outside
\* [-180, 180], the call fails with a validation error and returns no result.
C12_RejectsOutOfRange ==
    (pc = "done" /\ ~ValidArgs) => (exc # NoExc /\ gc_ret = NoResult)

\* C13: for two valid points the azimuth is the atan2 bearing, which lies in
\* [-180, 180], brought into 0 <= azimuth < 360 by (bearing + 360) mod 360.
C13_AzimuthRange ==
    DoneValid =>
        LET bearing == bearing_of(gc_args.lat1, gc_args.lon1, gc_args.lat2, gc_args.lon2)
        IN  /\ 0 <= gc_ret.azimuth /\ gc_ret.azimuth < 360
            /\ 0 - 180 <= bearing /\ bearing <= 180
            /\ gc_ret.azimuth = (IF bearing < 0 THEN bearing + 360 ELSE bearing)

C13_Witness ==
    /\ DoneValid
    /\ bearing_of(gc_args.lat1, gc_args.lon1, gc_args.lat2, gc_args.lon2) < 0
    /\ gc_ret.azimuth = 275

\* C14: for two valid points the inclination is the acos of
\* cos(lat1) * sin(azimuth) clamped to [-1, 1]: the argument of acos is in
\* its domain and the inclination lies in [0, 180] degrees (its cosine is
\* the product, to the half degree the inverse function resolves).
C14_InclinationRange ==
    DoneValid =>
        LET product == Mul(cos(gc_args.lat1), sin(gc_ret.azimuth))
        IN  /\ 0 - Scale <= clamp(product) /\ clamp(product) <= Scale
            /\ 0 <= gc_ret.inclination /\ gc_ret.inclination <= 180
            /\ Dist(cos(gc_ret.inclination), product) <= Scale \div 100

C14_Witness ==
    /\ DoneValid
    /\ gc_args.lat1 = 28
    /\ gc_ret.azimuth > 180
    /\ gc_ret.inclination = 152

\* C15: for a valid point p the call on (p, p) raises nothing and returns
\* distance_km = 0, distance_nm = 0 and azimuth 0.
C15_SamePoint ==
    (pc = "done" /\ ValidArgs /\ gc_args.lat1 = gc_args.lat2 /\ gc_args.lon1 = gc_args.lon2) =>
        /\ exc = NoExc
        /\ gc_ret.distance_km = 0
        /\ gc_ret.distance_nm = 0
        /\ gc_ret.azimuth = 0

C15_Witness ==
    /\ pc = "done"
    /\ gc_args = [lat1 |-> 28, lon1 |-> 0 - 80, lat2 |-> 28, lon2 |-> 0 - 80]
    /\ exc = NoExc
    /\ gc_ret.distance_km = 0
    /\ gc_ret.azimuth = 0

\* C16: the distance from a to b is the distance from b to a, in kilometres
\* and in nautical miles.
C16_DistanceSymmetric ==
    DoneValid =>
        LET back == calculate_great_circle_info(gc_args.lat2, gc_args.lon2,
                                                gc_args.lat1, gc_args.lon1)
        IN  /\ great_circle_exc(gc_args.lat2, gc_args.lon2, gc_args.lat1, gc_args.lon1) = NoExc
            /\ back.distance_km = gc_ret.distance_km
            /\ back.distance_nm = gc_ret.distance_nm

C16_Witness ==
    /\ DoneValid
    /\ gc_args = [lat1 |-> 28, lon1 |-> 0 - 80, lat2 |-> 0 - 60, lon2 |-> 90]
    /\ gc_ret.distance_km > 0
    /\ calculate_great_circle_info(0 - 60, 90, 28, 0 - 80).azimuth # gc_ret.azimuth

\* C17: haversine distance on a sphere of radius 6371.0 km, nautical miles
\* as 0.539957 times the kilometres, and the initial bearing: from (0, 0) to
\* (0, 90) the distance is 10007.5 km, a quarter of the circumference, and
\* the azimuth 90.
C17_QuarterCircumference ==
    /\ (pc = "done" /\ gc_args = [lat1 |-> 0, lon1 |-> 0, lat2 |-> 0, lon2 |-> 90]) =>
           /\ exc = NoExc
           /\ Dist(gc_ret.distance_km, 100075) <= 1
           /\ Dist(gc_ret.distance_nm, 54036) <= 1
           /\ gc_ret.azimuth = 90
    /\ (DoneValid /\ gc_ret.distance_km > 0) =>
           /\ (gc_ret.distance_nm * 1000) \div gc_ret.distance_km \in {539, 540}
           /\ gc_ret.distance_km <= (earth_radius_km * Pi) \div 1000 + 1

C17_Witness ==
    /\ pc = "done"
    /\ gc_args = [lat1 |-> 0, lon1 |-> 0, lat2 |-> 0, lon2 |-> 90]
    /\ gc_ret.distance_km = 100075
    /\ gc_ret.azimuth = 90

----------------------------------------------------------------------------
(* Claims about the functions as functions, checked under SpecCalls *)

\* every two calls in S made with the same argument had the same outcome
SameOutcome(S) ==
    \A e1 \in S, e2 \in S : e1.arg = e2.arg => (e1.exc = e2.exc /\ e1.ret = e2.ret)

----------------------------------------------------------------------------
(* Claims about concurrent calls, checked under SpecThreads *)

Finished(t) == frames[t].pc = "returned"

\* what the call of frame f returns when no other call runs
Alone(f) ==
    CASE f.op = "parse_coordinate" -> parse_coordinate(f.text)
      [] f.op = "parse_notam_area" -> parse_notam_area(f.text)
      [] f.op = "calculate_polygon_center" -> calculate_polygon_center(f.held)

\* C19: the functions touch no shared mutable state and leave their
\* arguments as they were, so however the statements of concurrent calls
\* interleave, each call returns what it returns when run alone.
C19_ThreadSafe ==
    /\ widget = InitWidget
    /\ \A t \in Threads :
        /\ frames[t].op = "calculate_polygon_center" => coordinates = frames[t].held
        /\ Finished(t) =>
             IF frames[t].op = "calculate_great_circle_info"
             THEN frames[t].info = calculate_great_circle_info(
                      frames[t].args.lat1, frames[t].args.lon1,
                      frames[t].args.lat2, frames[t].args.lon2)
             ELSE frames[t].ret = Alone(frames[t])

\* two threads were inside parse_notam_area of different texts at the same
\* time, and both have returned, one with two vertices and one with one
C19_Witness ==
    \E t \in Threads, u \in Threads :
        /\ Finished(t) /\ Finished(u)
        /\ frames[t].overlapped /\ frames[u].overlapped
        /\ frames[t].op = "parse_notam_area" /\ frames[u].op = "parse_notam_area"
        /\ frames[t].text # frames[u].text
        /\ frames[t].iters = 2 /\ frames[u].iters = 1
        /\ ~frames[t].ret.none /\ ~frames[u].ret.none
        /\ Len(frames[t].ret.val) = 2 /\ Len(frames[u].ret.val) = 1

----------------------------------------------------------------------------
(* Claims about termination, checked under SpecThreadsFair *)

\* the most iterations a loop of the call of frame f may make
IterationBound(f) ==
    CASE f.op = "parse_notam_area" -> Len(f.text) \div Len(coord_pattern)
      [] f.op = "calculate_polygon_center" -> Len(f.held)
      [] OTHER -> 0

\* C20: every call of parse_coordinate, parse_notam_area and
\* calculate_polygon_center returns, and no loop of it makes more iterations
\* than the text has room for tokens, respectively than the list has vertices.
C20_Terminates ==
    /\ [](\A t \in Threads : frames[t].iters <= IterationBound(frames[t]))
    /\ \A t \in Threads :
         (frames[t].op \in {"parse_coordinate", "parse_notam_area",
                            "calculate_polygon_center"}) ~> Finished(t)

\* a parse_notam_area call that went twice round its loop and a
\* calculate_polygon_center call that went round both of its loops have
\* returned
C20_Witness ==
    \E t \in Threads, u \in Threads :
        /\ Finished(t) /\ frames[t].op = "parse_notam_area" /\ frames[t].iters = 2
        /\ Finished(u) /\ frames[u].op = "calculate_polygon_center"
        /\ Len(frames[u].lons) = 2

----------------------------------------------------------------------------
(* Claims about the failure values, checked under SpecCalls *)

\* the text holds no "BOUNDED BY:" marker at all
NoMarker(s) == re_search(s) = <<>>

\* C21: the failure parse_notam_area reports when no boundary is found is a
\* different value from the failure parse_coordinate reports for a malformed
\* token, so the returned indicator alone tells "not found" from "malformed".
C21_FailuresDistinct ==
    \A e1 \in log.coord, e2 \in log.area :
        (e1.ret.none /\ e2.ret.none /\ NoMarker(e2.arg))
            => <<e1.exc, e1.ret>> # <<e2.exc, e2.ret>>

----------------------------------------------------------------------------
(* Claims about draw_notam_polygon, checked under SpecDraw *)

\* the first and the last vertex of the list given to the call differ
OpenRing == ~same_vertex(canvas.arg[1], canvas.arg[Len(canvas.arg)])

\* C22: draw_notam_polygon draws a closed ring without changing its input.
\* The drawn vertices are the input vertices followed by the first vertex
\* exactly when the first and last input vertices differ; the caller's list
\* is what it was; the centroid, and the flight path when drawn, come from
\* the list as given, not from the closed ring.
C22_ClosesACopy ==
    (pc = "done" /\ canvas.arg # <<>>) =>
        LET n == Len(canvas.arg) IN
        /\ coordinates = canvas.arg
        /\ Len(canvas.polygon) = IF OpenRing THEN n + 1 ELSE n
        /\ \A i \in 1..n : canvas.polygon[i] = <<canvas.arg[i][2], canvas.arg[i][1]>>
        /\ OpenRing => canvas.polygon[n + 1] = canvas.polygon[1]
        /\ canvas.center = calculate_polygon_center(canvas.arg)
        /\ ~canvas.path.none =>
             /\ canvas.path.val[3] = calculate_polygon_center(canvas.arg).val[2]
             /\ canvas.path.val[4] = calculate_polygon_center(canvas.arg).val[1]
             /\ canvas.traj.val[3] = calculate_polygon_center(canvas.arg).val[1]

\* an open list of three vertices was drawn as four, with the flight path
\* shown, and the caller still holds three
C22_Witness ==
    /\ pc = "done"
    /\ Len(canvas.arg) = 3
    /\ OpenRing
    /\ Len(canvas.polygon) = 4
    /\ Len(coordinates) = 3
    /\ ~canvas.path.none

----------------------------------------------------------------------------
(* Claims about texts with several markers, checked under SpecMarkers *)

MarkerCount(ps) == Cardinality({i \in 1..Len(ps) : ps[i] \in MarkerNames})

\* C23: of several "BOUNDED BY:" markers only the leftmost one that is
\* followed by at least one non-period character is used.  The vertices are
\* the tokens of that marker's span alone, and when that span holds no token
\* the call fails, whatever the span of a later marker holds.
C23_LeftmostMarkerOnly ==
    (pc = "done" /\ MarkerCount(pieces) >= 2) =>
        area_ret = IF SpanTokens(pieces) = <<>> THEN None
                   ELSE Some([k \in 1..Len(SpanTokens(pieces)) |->
                                 Vertex(SpanTokens(pieces)[k])])

\* the first marker's span holds no token, the second marker's span holds
\* one, and the call has failed
C23_Witness ==
    /\ pc = "done"
    /\ pieces = <<"MARKER", "-", ".", "MARKER", "T0">>
    /\ area_ret = None

----------------------------------------------------------------------------
(* Claims about the re-entry timeline, checked under SpecTimeline *)

\* re-entries of the month shown and of the month before it
Shown == {r \in timeline.reentries :
             r.year = timeline.current_year /\ r.month = timeline.current_month}

Before ==
    {r \in timeline.reentries :
        /\ r.year = prev_year_of(timeline.current_year, timeline.current_month)
        /\ r.month = prev_month_of(timeline.current_month)}

DaysBefore ==
    monthrange(prev_year_of(timeline.current_year, timeline.current_month),
               prev_month_of(timeline.current_month))

\* day d lies in the recovery period of a re-entry of the month before
CarriedOver(d) ==
    \E p \in Before : d <= p.day + timeline.turnaround_days - DaysBefore

\* day d lies in the recovery period of an earlier re-entry of the month shown
Recovering(d) ==
    \E r \in Shown : r.day < d /\ d <= r.day + timeline.turnaround_days

\* C24: recovery periods are carried over the month boundary.  A re-entry on
\* day p of the previous month with p + t beyond that month's last day makes
\* days 1 .. p + t - days_in_prev_month of the month shown grey wherever that
\* month has no re-entry, and re-entries of the month shown never produce
\* such shading: a grey day is carried over or follows a re-entry of the
\* month shown within t days.
C24_CarriesRecoveryOver ==
    pc = "done" =>
        \A d \in 1..Len(timeline.cells) :
            (\A r \in Shown : r.day # d) =>
                /\ CarriedOver(d) => timeline.cells[d] = "recovery"
                /\ timeline.cells[d] = "recovery" => (CarriedOver(d) \/ Recovering(d))

----------------------------------------------------------------------------
(* Claims about _fetch, checked under SpecFetch *)

\* C25: _fetch fetches up to max_results items.  For every max_results >= 1
\* the page sizes requested by the first request and by all follow-up
\* requests sum to at most max_results, and as no response holds more than
\* the page size asked for, no more than max_results items are returned.
C25_AtMostMaxResults ==
    fetching.pc # "idle" =>
        /\ fetching.requested <= fetching.max_results
        /\ fetching.results <= fetching.max_results

----------------------------------------------------------------------------
(* Claims about the sync, checked under SpecSync *)

CalledSyncLaunch == sync.called = "_sync_launch_to_db"

\* C26: _sync_launch_to_db reports what it did.  It returns 'added' only
\* when it created a new Launch row and 'updated' when a Launch with the
\* same external_id existed and was updated, so the second sync of a launch
\* returns 'updated'; and it leaves exactly one Launch row with that
\* external_id.
C26_ReportsAddedOrUpdated ==
    (CalledSyncLaunch /\ sync.fault = "none") =>
        /\ sync.action = IF sync.existed THEN "updated" ELSE "added"
        /\ Cardinality({r \in db.launches : r.external_id = sync.launch}) = 1

\* C27: in the statistics of sync_upcoming_launches, sync_previous_launches
\* and sync_date_range every fetched launch is counted in exactly one of
\* added, updated or skipped, also when parsing or saving it raised:
\* added + updated + skipped = total_processed.
C27_EveryLaunchCounted ==
    sync.called \in {"sync_upcoming_launches", "sync_previous_launches", "sync_date_range"} =>
        sync.stats.added + sync.stats.updated + sync.stats.skipped
            = sync.stats.total_processed

\* C28: when _sync_launch_to_db returns ('skipped', 0) the rows are what
\* they were before the call: no LaunchSite, Rocket or Launch row was
\* created or modified.
C28_SkippedLeavesRows ==
    (CalledSyncLaunch /\ sync.action = "skipped") => db = sync.before

----------------------------------------------------------------------------
(* Claims about SyncWorker, checked under SpecWorker *)

\* C29: every execution of SyncWorker.run emits finished exactly once, for
\* every sync_type and also when the sync raises, and the emitted dict
\* always contains the keys 'added', 'updated' and 'errors' that
\* sync_finished reads.
C29_EmitsOnceWithKeys ==
    worker.state = "finished" =>
        /\ Len(worker.emitted) = 1
        /\ {"added", "updated", "errors"} \subseteq DOMAIN worker.emitted[1]

----------------------------------------------------------------------------
(* Claims about the dict-based MapView, checked under SpecMapView *)

\* the text parse_custom_notam was called on parses to at least one vertex
ParsesToVertices(text) ==
    /\ strip(text) # <<>>
    /\ ~parse_notam_area(strip(text)).none
    /\ Len(parse_notam_area(strip(text)).val) >= 1

\* C30: parse_custom_notam stores a polygon on the selected launch only
\* when the text is non-empty, parses to at least one vertex and a launch is
\* selected; with empty text, unparseable text or no selected launch it
\* leaves selected_launch, with a custom NOTAM stored before, unchanged; and
\* after clear_custom_notam the selected launch has no custom NOTAM.
C30_CustomNotamStoredAndCleared ==
    /\ mapview.called = "parse_custom_notam" =>
          IF ParsesToVertices(mapview.text) /\ ~mapview.before.none
          THEN /\ mapview.selected_launch.launch_id = mapview.before.launch_id
               /\ mapview.selected_launch.custom_notam
                      = parse_notam_area(strip(mapview.text))
          ELSE mapview.selected_launch = mapview.before
    /\ mapview.called = "clear_custom_notam" =>
          mapview.selected_launch.custom_notam = None

\* an unparseable text was parsed while a custom NOTAM was stored: it stays
C30_Witness ==
    /\ mapview.called = "parse_custom_notam"
    /\ mapview.text = RenderAll(<<"MARKER", "SP">>)
    /\ ~mapview.before.none
    /\ Len(mapview.before.custom_notam.val) = 4
    /\ mapview.selected_launch = mapview.before

====
